---- MODULE Spec2Model ----
(***************************************************************************)
(* The resilience substrate of the service: RateLimitService (sliding      *)
(* window over a Redis sorted set), BackpressureInterceptor (in-process     *)
(* concurrency gate) and CacheService (cache-aside layer over Redis string  *)
(* keys, with a health flag driven by connection events and timers).        *)
(*                                                                          *)
(* Time is the millisecond clock read by Date.now().  The store's clock and *)
(* the callers' clock are the same clock, and a store round trip is shorter *)
(* than one step of the clock: the clock does not advance while a call is   *)
(* in flight.                                                               *)
(*                                                                          *)
(* Text (a cache key, a key pattern, a serialized payload) is a sequence of *)
(* pieces; a JavaScript value is <<type, text, properties>>.                *)
(***************************************************************************)
EXTENDS Integers, FiniteSets, Sequences, TLC

\* ------------------------------------------------------------------ bounds
MaxCalls == 3          \* checkRateLimit calls started in one behaviour
NCallers == 2          \* concurrent callers (requests in flight, any instance)
MaxTicks == 3          \* clock steps of the rate limiter's behaviours
MaxLimit == 2          \* largest configured limit
MaxOutageCalls == 2    \* checkRateLimit calls of a behaviour with outages
NReq == 5              \* HTTP requests of one behaviour of the interceptor
BpMaxTicks == 3        \* clock steps of the interceptor's behaviours
NLiveReq == 3          \* HTTP requests of a behaviour with timers
NCacheCallers == 3     \* cache operations in flight at once, at most
MaxCacheOps == 2       \* cache operations started in one behaviour
MaxCacheTicks == 3     \* clock steps of the cache layer's behaviours
MaxReconnects == 1     \* reconnecting events of one behaviour
MaxRevision == 2       \* revisions of the task in the system of record
NPipeReq == 2          \* HTTP requests of one behaviour of the pipeline

\* ------------------------------------------------------- program constants
MsPerSecond == 1000            \* windowSeconds * 1000
DefaultMaxConcurrent == 1000   \* MAX_CONCURRENT_REQUESTS default
RetryAfterSeconds == 5         \* retryAfter of a 503
ServiceUnavailable == 503      \* HttpStatus.SERVICE_UNAVAILABLE
TooManyRequests == 429         \* HttpStatus.TOO_MANY_REQUESTS
WarnIntervalMs == 60000        \* one capacity warning per minute
WarnPercent == 80              \* capacityPercentage >= 80
FullPercent == 100             \* capacityPercentage < 100
defaultTTL == 300              \* seconds
RecoveryDelayMs == 30000       \* markUnhealthy(30000)
RetryStepMs == 50               \* times * 50
RetryCapMs == 2000              \* Math.min(..., 2000)
batchSize == 1000              \* keys per DEL of invalidatePattern

TickMs == MsPerSecond \div 2
BpTickMs == WarnIntervalMs \div 2 + 1
CacheTickMs == RecoveryDelayMs \div 2
TtlTickMs == (defaultTTL * MsPerSecond) \div 2

Keys == {"user:42", "ip:9f86"}
Callers == 1..NCallers
WindowChoices == {1, 2}                 \* windowSeconds
\* MAX_CONCURRENT_REQUESTS in the environment: a string, or not set
Env(text) == [set |-> TRUE, text |-> text]
Unset == [set |-> FALSE, text |-> << >>]
ConfiguredMax == {Env(<<"-", "1">>), Env(<<"0">>), Env(<<"1">>), Env(<<"2">>), Env(<<"5">>)}
Reqs == 1..NReq
CacheCallers == 1..NCacheCallers

NoTTL == -1            \* key without expiry
NoResult == -1         \* results[1][1] undefined: the command failed
NoRetryAfter == -1     \* retryAfter absent from the result
NoWarning == -1        \* lastCapacityWarning = null
NotSet == -1           \* a response header that was not set
NaN == -1000000        \* not a number (no string of the inputs converts to it)
NoArg == -1            \* ttlSeconds not passed (undefined)
NoDelay == -1          \* retryStrategy returned no number

VARIABLES
  now,                 \* Date.now(), ms
  \* ---- coordination store (Redis), shared by all instances
  up,                  \* the store is reachable
  zset,                \* zset[k]: members <<score, nonce>> of ratelimit:k
  expireAt,            \* expireAt[k]: when the key expires, or NoTTL
  \* ---- RateLimitService
  limit, windowSeconds,\* the (limit, ttl) of the route
  rl,                  \* rl[p]: the checkRateLimit call of caller p
  nextId,              \* calls started so far (the nonce of the next one)
  calls,               \* results returned so far
  \* ---- BackpressureInterceptor
  configured,          \* MAX_CONCURRENT_REQUESTS as the constructor found it
  maxConcurrent,
  activeRequests,
  wasAtCapacity,
  lastCapacityWarning,
  req,                 \* req[r]: request r as seen by intercept
  \* ---- the HTTP pipeline of AppModule
  pipe,                \* pipe[r]: request r on its way through the global interceptors
  \* ---- coordination store: string keys (the cache entries)
  kv,                  \* kv[k] = [text, expireAt] for every key k that exists
  \* ---- CacheService (one instance) and its ioredis client
  status,              \* redis.status
  isHealthy,
  reconnectAttempts,
  retry,               \* the client's retryAttempts and the last retryStrategy delay
  timers,              \* due times of the pending markUnhealthy timeouts
  cache,               \* cache[p]: the cache operation of caller p
  cacheOps,            \* cache operations started so far
  \* ---- TasksService over the cache (README, TasksService Integration)
  db,                  \* the system of record: the revision of task 1
  svc                  \* svc[p]: the findOne or update call of caller p

storeVars == <<up, zset, expireAt>>
rlVars == <<limit, windowSeconds, rl, nextId, calls>>
gateVars == <<configured, maxConcurrent, activeRequests, wasAtCapacity, lastCapacityWarning, req>>
bpVars == <<configured, maxConcurrent, activeRequests, wasAtCapacity, lastCapacityWarning, req, pipe>>
connVars == <<status, isHealthy, reconnectAttempts, retry, timers>>
cacheVars == <<kv, status, isHealthy, reconnectAttempts, retry, timers, cache, cacheOps, db, svc>>
otherVars == <<up, zset, expireAt, limit, windowSeconds, rl, nextId, calls,
               configured, maxConcurrent, activeRequests, wasAtCapacity,
               lastCapacityWarning, req, pipe>>
vars == <<now, up, zset, expireAt, limit, windowSeconds, rl, nextId, calls,
          configured, maxConcurrent, activeRequests, wasAtCapacity, lastCapacityWarning, req,
          pipe,
          kv, status, isHealthy, reconnectAttempts, retry, timers, cache, cacheOps, db, svc>>

Max(a, b) == IF a >= b THEN a ELSE b
FloorDiv(a, b) == a \div b
CeilDiv(a, b) == (a + b - 1) \div b

\* =================================================================== store
windowMs == windowSeconds * MsPerSecond

\* ZREMRANGEBYSCORE key lo hi: both ends inclusive
zremrangebyscore(members, lo, hi) == {m \in members : ~(lo <= m[1] /\ m[1] <= hi)}

zcard_AfterInsertion(members) == Cardinality(members) + 1
zcard(members) == Cardinality(members)

\* ZADD key score member
zadd(members, score, member) == members \cup {<<score, member>>}

\* EXPIRE key seconds, at the store's clock
expire(seconds) == now + seconds * MsPerSecond

\* A key whose TTL has run out is gone; an empty sorted set is no key.
ExpireKeys(t) ==
  /\ zset' = [k \in Keys |-> IF expireAt[k] # NoTTL /\ t >= expireAt[k] THEN {} ELSE zset[k]]
  /\ expireAt' = [k \in Keys |-> IF expireAt[k] # NoTTL /\ t >= expireAt[k] THEN NoTTL ELSE expireAt[k]]

\* the string keys that are left at time t
ExpireEntries(t) == [k \in {j \in DOMAIN kv : kv[j].expireAt > t} |-> kv[k]]

\* ======================================================== RateLimitService
\* what resetRateLimit or getRateLimitStatus returned (path "none": nothing yet)
NoReturn == [allowed |-> FALSE, limit |-> 0, remaining |-> 0, reset |-> 0, path |-> "none"]

IdleCall ==
  [pc |-> "idle", op |-> "none", key |-> "user:42", now |-> 0, id |-> 0,
   count |-> NoResult, failed |-> FALSE, ret |-> NoReturn]

AllIdle == \A p \in Callers : rl[p].pc = "idle"

\* const now = Date.now(); const windowStart = now - windowSeconds * 1000
windowStart(t) == t - windowMs

\* results[1] ? (results[1][1] || 0) : 0
extractCount(r1) == IF r1 = NoResult THEN 0 ELSE r1

allowedOf_OffByOne(count, lim) == count <= lim
allowedOf(count, lim) == count < lim

remainingOf(count, lim) == Max(0, lim - count - 1)

resetOf(t) == t + windowMs

retryAfterOf(allowed, reset, t) == IF allowed THEN 0 ELSE CeilDiv(reset - t, MsPerSecond)

\* the result of the try block
okResult(c) ==
  LET count == extractCount(c.count)
      allowed == allowedOf(count, limit)
      reset == resetOf(c.now)
  IN [id |-> c.id, key |-> c.key, ts |-> c.now, count |-> c.count,
      allowed |-> allowed, limit |-> limit,
      remaining |-> remainingOf(count, limit),
      reset |-> FloorDiv(reset, MsPerSecond),
      retryAfter |-> retryAfterOf(allowed, reset, c.now),
      path |-> IF c.failed THEN "errors" ELSE "ok", logged |-> FALSE]

\* the result of the catch block: fail open
failOpenResult(c) ==
  [id |-> c.id, key |-> c.key, ts |-> c.now, count |-> c.count,
   allowed |-> TRUE, limit |-> limit,
   remaining |-> limit,
   reset |-> FloorDiv(c.now + windowMs, MsPerSecond),
   retryAfter |-> NoRetryAfter,
   path |-> "thrown", logged |-> TRUE]

\* checkRateLimit is entered: now and the pipeline are fixed
BeginCall(p, k) ==
  /\ rl[p].pc = "idle"
  /\ \A q \in Callers : q < p => rl[q].pc # "idle"
  /\ nextId < MaxCalls
  /\ rl' = [rl EXCEPT ![p] = [IdleCall EXCEPT !.pc = "zrem", !.op = "check", !.key = k,
                                               !.now = now, !.id = nextId + 1]]
  /\ nextId' = nextId + 1
  /\ UNCHANGED <<now, storeVars, limit, windowSeconds, calls, gateVars, cacheVars>>

Begin(p, k) == BeginCall(p, k) /\ UNCHANGED pipe

\* pipeline.zremrangebyscore(redisKey, 0, windowStart) reaches the store, or fails
Zrem(p) ==
  /\ rl[p].pc = "zrem"
  /\ IF up
       THEN LET left == zremrangebyscore(zset[rl[p].key], 0, windowStart(rl[p].now))
            IN /\ zset' = [zset EXCEPT ![rl[p].key] = left]
               /\ expireAt' = [expireAt EXCEPT ![rl[p].key] = IF left = {} THEN NoTTL ELSE @]
               /\ rl' = [rl EXCEPT ![p].pc = "zcard"]
       ELSE /\ rl' = [rl EXCEPT ![p].pc = "zcard", ![p].failed = TRUE]
            /\ UNCHANGED <<zset, expireAt>>
  /\ UNCHANGED <<now, up, limit, windowSeconds, nextId, calls, bpVars, cacheVars>>

\* pipeline.zcard(redisKey)
Zcard(p) ==
  /\ rl[p].pc = "zcard"
  /\ IF up
       THEN rl' = [rl EXCEPT ![p].pc = "zadd", ![p].count = zcard(zset[rl[p].key])]
       ELSE rl' = [rl EXCEPT ![p].pc = "zadd", ![p].failed = TRUE]
  /\ UNCHANGED <<now, storeVars, limit, windowSeconds, nextId, calls, bpVars, cacheVars>>

Zadd_OnlyIfAllowed(p) ==
  /\ rl[p].pc = "zadd"
  /\ IF up /\ allowedOf(extractCount(rl[p].count), limit)
       THEN /\ zset' = [zset EXCEPT ![rl[p].key] = zadd(@, rl[p].now, rl[p].id)]
            /\ rl' = [rl EXCEPT ![p].pc = "expire"]
       ELSE /\ rl' = [rl EXCEPT ![p].pc = "expire", ![p].failed = ~up]
            /\ UNCHANGED zset
  /\ UNCHANGED <<now, up, expireAt, limit, windowSeconds, nextId, calls, bpVars, cacheVars>>

\* pipeline.zadd(redisKey, now, `${now}-${Math.random()}`)
Zadd(p) ==
  /\ rl[p].pc = "zadd"
  /\ IF up
       THEN /\ zset' = [zset EXCEPT ![rl[p].key] = zadd(@, rl[p].now, rl[p].id)]
            /\ rl' = [rl EXCEPT ![p].pc = "expire"]
       ELSE /\ rl' = [rl EXCEPT ![p].pc = "expire", ![p].failed = TRUE]
            /\ UNCHANGED zset
  /\ UNCHANGED <<now, up, expireAt, limit, windowSeconds, nextId, calls, bpVars, cacheVars>>

\* pipeline.expire(redisKey, windowSeconds)
Expire(p) ==
  /\ rl[p].pc = "expire"
  /\ IF up
       THEN /\ expireAt' = [expireAt EXCEPT ![rl[p].key] =
                              IF zset[rl[p].key] = {} THEN NoTTL ELSE expire(windowSeconds)]
            /\ rl' = [rl EXCEPT ![p].pc = "exec"]
       ELSE /\ rl' = [rl EXCEPT ![p].pc = "exec", ![p].failed = TRUE]
            /\ UNCHANGED expireAt
  /\ UNCHANGED <<now, up, zset, limit, windowSeconds, nextId, calls, bpVars, cacheVars>>

\* await pipeline.exec() resolves: the try block returns
Return(p) ==
  /\ rl[p].pc = "exec"
  /\ calls' = calls \cup {okResult(rl[p])}
  /\ rl' = [rl EXCEPT ![p] = IdleCall]
  /\ UNCHANGED <<now, storeVars, limit, windowSeconds, nextId, bpVars, cacheVars>>

\* await pipeline.exec() rejects: the catch block returns
Throw(p) ==
  /\ rl[p].pc = "exec"
  /\ rl[p].failed
  /\ calls' = calls \cup {failOpenResult(rl[p])}
  /\ rl' = [rl EXCEPT ![p] = IdleCall]
  /\ UNCHANGED <<now, storeVars, limit, windowSeconds, nextId, bpVars, cacheVars>>

\* the result of getRateLimitStatus's try block
statusResult(count, t) ==
  [allowed |-> allowedOf(count, limit), limit |-> limit,
   remaining |-> Max(0, limit - count),
   reset |-> FloorDiv(resetOf(t), MsPerSecond), path |-> "ok"]

\* the result of getRateLimitStatus's catch block
statusFailOpen(t) ==
  [allowed |-> TRUE, limit |-> limit, remaining |-> limit,
   reset |-> FloorDiv(t + windowMs, MsPerSecond), path |-> "thrown"]

\* resetRateLimit's Promise<void>: resolved after the try block or the catch block
resetReturn(ok) == [NoReturn EXCEPT !.path = IF ok THEN "ok" ELSE "thrown"]

\* the call of caller p has returned ret
returned(c, ret) == [IdleCall EXCEPT !.op = c.op, !.key = c.key, !.now = c.now,
                                     !.id = c.id, !.failed = c.failed, !.ret = ret]

\* getRateLimitStatus is entered
BeginStatus(p, k) ==
  /\ rl[p].pc = "idle"
  /\ \A q \in Callers : q < p => rl[q].pc # "idle"
  /\ nextId < MaxCalls
  /\ rl' = [rl EXCEPT ![p] = [IdleCall EXCEPT !.pc = "szrem", !.op = "status", !.key = k,
                                               !.now = now, !.id = nextId + 1]]
  /\ nextId' = nextId + 1
  /\ UNCHANGED <<now, storeVars, limit, windowSeconds, calls, bpVars, cacheVars>>

\* await this.redis.zremrangebyscore(redisKey, 0, windowStart) resolves or rejects
StatusZrem(p) ==
  /\ rl[p].pc = "szrem"
  /\ IF up
       THEN LET left == zremrangebyscore(zset[rl[p].key], 0, windowStart(rl[p].now))
            IN /\ zset' = [zset EXCEPT ![rl[p].key] = left]
               /\ expireAt' = [expireAt EXCEPT ![rl[p].key] = IF left = {} THEN NoTTL ELSE @]
               /\ rl' = [rl EXCEPT ![p].pc = "szcard"]
       ELSE /\ rl' = [rl EXCEPT ![p] = returned([@ EXCEPT !.failed = TRUE],
                                                statusFailOpen(rl[p].now))]
            /\ UNCHANGED <<zset, expireAt>>
  /\ UNCHANGED <<now, up, limit, windowSeconds, nextId, calls, bpVars, cacheVars>>

StatusZcard_Consumes(p) ==
  /\ rl[p].pc = "szcard"
  /\ zset' = [zset EXCEPT ![rl[p].key] = zadd(@, rl[p].now, rl[p].id)]
  /\ rl' = [rl EXCEPT ![p] = returned(@, statusResult(zcard(zset[rl[p].key]), rl[p].now))]
  /\ UNCHANGED <<now, up, expireAt, limit, windowSeconds, nextId, calls, bpVars, cacheVars>>

\* await this.redis.zcard(redisKey) resolves or rejects; the call returns
StatusZcard(p) ==
  /\ rl[p].pc = "szcard"
  /\ IF up
       THEN rl' = [rl EXCEPT ![p] = returned(@, statusResult(zcard(zset[rl[p].key]), rl[p].now))]
       ELSE rl' = [rl EXCEPT ![p] = returned([@ EXCEPT !.failed = TRUE],
                                            statusFailOpen(rl[p].now))]
  /\ UNCHANGED <<now, storeVars, limit, windowSeconds, nextId, calls, bpVars, cacheVars>>

\* resetRateLimit is entered
BeginReset(p, k) ==
  /\ rl[p].pc = "idle"
  /\ \A q \in Callers : q < p => rl[q].pc # "idle"
  /\ nextId < MaxCalls
  /\ rl' = [rl EXCEPT ![p] = [IdleCall EXCEPT !.pc = "del", !.op = "reset", !.key = k,
                                               !.now = now, !.id = nextId + 1]]
  /\ nextId' = nextId + 1
  /\ UNCHANGED <<now, storeVars, limit, windowSeconds, calls, bpVars, cacheVars>>

ResetDel_AllKeys(p) ==
  /\ rl[p].pc = "del"
  /\ zset' = [k \in Keys |-> {}]
  /\ expireAt' = [k \in Keys |-> NoTTL]
  /\ rl' = [rl EXCEPT ![p] = returned(@, resetReturn(TRUE))]
  /\ UNCHANGED <<now, up, limit, windowSeconds, nextId, calls, bpVars, cacheVars>>

\* await this.redis.del(redisKey) resolves or rejects; the call returns
ResetDel(p) ==
  /\ rl[p].pc = "del"
  /\ IF up
       THEN /\ zset' = [zset EXCEPT ![rl[p].key] = {}]
            /\ expireAt' = [expireAt EXCEPT ![rl[p].key] = NoTTL]
            /\ rl' = [rl EXCEPT ![p] = returned(@, resetReturn(TRUE))]
       ELSE /\ rl' = [rl EXCEPT ![p] = returned([@ EXCEPT !.failed = TRUE], resetReturn(FALSE))]
            /\ UNCHANGED <<zset, expireAt>>
  /\ UNCHANGED <<now, up, limit, windowSeconds, nextId, calls, bpVars, cacheVars>>

StoreDown ==
  /\ up
  /\ up' = FALSE
  /\ UNCHANGED <<now, zset, expireAt, rlVars, bpVars, cacheVars>>

\* the connection is re-established; commands of a pipeline written to the lost
\* connection are not replayed
StoreUp ==
  /\ ~up
  /\ AllIdle
  /\ up' = TRUE
  /\ UNCHANGED <<now, zset, expireAt, rlVars, bpVars, cacheVars>>

\* the clock advances; keys whose TTL ran out disappear
Advance(d, last) ==
  /\ now + d <= last
  /\ now' = now + d
  /\ ExpireKeys(now + d)
  /\ kv' = ExpireEntries(now + d)
  /\ UNCHANGED <<up, rlVars, bpVars, connVars, cache, cacheOps, db, svc>>

\* the clock advances between calls; keys whose TTL ran out disappear
Tick(d, last) ==
  /\ AllIdle
  /\ now + d <= last
  /\ now' = now + d
  /\ ExpireKeys(now + d)
  /\ kv' = ExpireEntries(now + d)
  /\ UNCHANGED <<up, rlVars, bpVars, connVars, cache, cacheOps, db, svc>>

\* ================================================= BackpressureInterceptor
NoResponse == [status |-> 0, retryAfter |-> 0, header |-> "", message |-> ""]

NewRequest ==
  [st |-> "new", hasDecremented |-> FALSE, incs |-> 0, decs |-> 0,
   outcome |-> "none", handled |-> FALSE, rejectLogged |-> FALSE, response |-> NoResponse]

\* the number a string converts to where the code compares or calculates with it
Digits == <<"0", "1", "2", "3", "4", "5", "6", "7", "8", "9">>
DigitValue(ch) == (CHOOSE i \in DOMAIN Digits : Digits[i] = ch) - 1

RECURSIVE Decimal(_)
Decimal(text) ==
  IF text = << >> THEN 0
  ELSE Decimal(SubSeq(text, 1, Len(text) - 1)) * Len(Digits) + DigitValue(text[Len(text)])

StringToNumber(text) ==
  IF text = << >> THEN 0
  ELSE LET signed == text[1] \in {"+", "-"}
           body == IF signed THEN Tail(text) ELSE text
       IN IF body = << >> \/ \E i \in DOMAIN body : \A j \in DOMAIN Digits : body[i] # Digits[j]
            THEN NaN
            ELSE IF text[1] = "-" THEN 0 - Decimal(body) ELSE Decimal(body)

\* constructor: configService.get('MAX_CONCURRENT_REQUESTS', 1000) hands over the
\* environment's string as it is; a value <= 0 falls back to the default
constructorMax(value) ==
  LET found == IF value.set THEN StringToNumber(value.text) ELSE DefaultMaxConcurrent
  IN IF found # NaN /\ found <= 0 THEN DefaultMaxConcurrent ELSE found

checkCapacity_OffByOne == maxConcurrent # NaN /\ activeRequests <= maxConcurrent
checkCapacity == maxConcurrent # NaN /\ activeRequests < maxConcurrent

incrementCounter_ByTwo ==
  LET a == activeRequests + 2
      high == /\ a * FullPercent >= WarnPercent * maxConcurrent
              /\ a * FullPercent < FullPercent * maxConcurrent
      warn == high /\ (\/ lastCapacityWarning = NoWarning
                       \/ now - lastCapacityWarning > WarnIntervalMs)
  IN /\ activeRequests' = a
     /\ lastCapacityWarning' = IF warn THEN now ELSE lastCapacityWarning
     /\ wasAtCapacity' = IF a >= maxConcurrent THEN TRUE ELSE wasAtCapacity

incrementCounter_EveryTime ==
  LET a == activeRequests + 1
      high == /\ a * FullPercent >= WarnPercent * maxConcurrent
              /\ a * FullPercent < FullPercent * maxConcurrent
  IN /\ activeRequests' = a
     /\ lastCapacityWarning' = IF high THEN now ELSE lastCapacityWarning
     /\ wasAtCapacity' = IF a >= maxConcurrent THEN TRUE ELSE wasAtCapacity

\* incrementCounter(): the counter, the 80% warning and the sticky capacity flag
incrementCounter ==
  LET a == activeRequests + 1
      high == /\ a * FullPercent >= WarnPercent * maxConcurrent
              /\ a * FullPercent < FullPercent * maxConcurrent
      warn == high /\ (\/ lastCapacityWarning = NoWarning
                       \/ now - lastCapacityWarning > WarnIntervalMs)
  IN /\ activeRequests' = a
     /\ lastCapacityWarning' = IF warn THEN now ELSE lastCapacityWarning
     /\ wasAtCapacity' = IF a >= maxConcurrent THEN TRUE ELSE wasAtCapacity

\* the state the callbacks of one request's pipe work on
Closure(r) ==
  [active |-> activeRequests, was |-> wasAtCapacity,
   hasDecremented |-> req[r].hasDecremented, decs |-> req[r].decs]

decrementCounter_Stuck(s) ==
  IF s.active > 1
    THEN [s EXCEPT !.active = s.active - 1, !.decs = @ + 1]
    ELSE s

decrementCounter_KeepsFlag(s) ==
  IF s.active > 0
    THEN [s EXCEPT !.active = s.active - 1, !.decs = @ + 1]
    ELSE s

\* decrementCounter(): the counter and the recovery log, which clears the flag
decrementCounter(s) ==
  IF s.active > 0
    THEN LET a == s.active - 1
         IN [s EXCEPT !.active = a,
                      !.was = IF s.was /\ 2 * a < maxConcurrent THEN FALSE ELSE s.was,
                      !.decs = @ + 1]
    ELSE s

catchErrorCallback_NoDecrement(s) == [s EXCEPT !.hasDecremented = TRUE]

\* catchError((error) => { if (!hasDecremented) {...}; return throwError(...) })
catchErrorCallback(s) ==
  IF ~s.hasDecremented
    THEN [decrementCounter(s) EXCEPT !.hasDecremented = TRUE]
    ELSE s

finalizeCallback_NoFlag(s) == [decrementCounter(s) EXCEPT !.hasDecremented = TRUE]

finalizeCallback_Skip(s) == s

\* finalize(() => { if (!hasDecremented) {...} })
finalizeCallback(s) ==
  IF ~s.hasDecremented
    THEN [decrementCounter(s) EXCEPT !.hasDecremented = TRUE]
    ELSE s

rejection_NoHint ==
  [status |-> ServiceUnavailable, retryAfter |-> 0, header |-> "",
   message |-> "Server is at capacity, please retry later"]

\* the 503 thrown by intercept, and the header set on the response
rejection ==
  [status |-> ServiceUnavailable, retryAfter |-> RetryAfterSeconds, header |-> "5",
   message |-> "Server is at capacity, please retry later"]

\* intercept(context, next): requests arrive in the order of their numbers
Intercept(r) ==
  /\ req[r].st = "new"
  /\ \A q \in Reqs : q < r => req[q].st # "new"
  /\ IF ~checkCapacity
       THEN /\ req' = [req EXCEPT ![r].st = "rejected",
                                  ![r].rejectLogged = TRUE, ![r].response = rejection]
            /\ UNCHANGED <<activeRequests, wasAtCapacity, lastCapacityWarning>>
       ELSE /\ incrementCounter
            /\ req' = [req EXCEPT ![r].st = "active",
                                  ![r].incs = @ + 1, ![r].handled = TRUE]
  /\ UNCHANGED <<now, storeVars, rlVars, configured, maxConcurrent, pipe, cacheVars>>

\* the callbacks of r's pipe have run and left closure state s
Finish(r, s, how) ==
  /\ activeRequests' = s.active
  /\ wasAtCapacity' = s.was
  /\ req' = [req EXCEPT ![r].st = "done", ![r].hasDecremented = s.hasDecremented,
                        ![r].decs = s.decs, ![r].outcome = how]
  /\ UNCHANGED <<now, storeVars, rlVars, configured, maxConcurrent, lastCapacityWarning, pipe, cacheVars>>

\* next.handle() completes: finalize runs
Complete(r) ==
  /\ req[r].st = "active"
  /\ Finish(r, finalizeCallback(Closure(r)), "completed")

\* next.handle() errors: catchError runs, rethrows, then finalize runs
Fail(r) ==
  /\ req[r].st = "active"
  /\ Finish(r, finalizeCallback(catchErrorCallback(Closure(r))), "errored")

\* TimeoutInterceptor downstream: timeout(timeoutMs) fires and the pipe errors
\* with RequestTimeoutException
Timeout(r) ==
  /\ req[r].st = "active"
  /\ Finish(r, finalizeCallback(catchErrorCallback(Closure(r))), "timeout")

\* the subscriber goes away (an upstream timeout, a closed connection):
\* only finalize runs
Unsubscribe(r) ==
  /\ req[r].st = "active"
  /\ Finish(r, finalizeCallback(Closure(r)), "unsubscribed")

\* ============================================================ CacheService
\* ---- JavaScript values: <<type, text, properties>>
Num(n) == <<"number", n, <<>>>>
Str(t) == <<"string", t, <<>>>>
Bool(b) == <<"boolean", b, <<>>>>
Null == <<"null", "null", <<>>>>
Undefined == <<"undefined", "", <<>>>>
DateOf(iso) == <<"Date", iso, <<>>>>
Obj(props) == <<"object", "", props>>

\* ---- JSON text: a sequence of tokens <<kind, text>>
Tok(kind, text) == <<kind, text>>

RECURSIVE JSON_stringify(_)
RECURSIVE stringifyProps(_, _)
\* the properties of an object; a property whose value is undefined is left out
stringifyProps(props, first) ==
  IF props = <<>> THEN <<>>
  ELSE LET pr == Head(props)
       IN IF pr[2][1] = "undefined"
            THEN stringifyProps(Tail(props), first)
            ELSE (IF first THEN <<>> ELSE <<Tok("punct", ",")>>)
                 \o <<Tok("string", pr[1]), Tok("punct", ":")>>
                 \o JSON_stringify(pr[2])
                 \o stringifyProps(Tail(props), FALSE)

\* JSON.stringify(value): NaN becomes null, a Date becomes its ISO string
JSON_stringify(v) ==
  CASE v[1] = "number" ->
         IF v[2] = "NaN" THEN <<Tok("literal", "null")>> ELSE <<Tok("number", v[2])>>
    [] v[1] = "string" -> <<Tok("string", v[2])>>
    [] v[1] = "boolean" -> <<Tok("literal", v[2])>>
    [] v[1] = "null" -> <<Tok("literal", "null")>>
    [] v[1] = "Date" -> <<Tok("string", v[2])>>
    [] v[1] = "object" ->
         <<Tok("punct", "{")>> \o stringifyProps(v[3], TRUE) \o <<Tok("punct", "}")>>
    [] OTHER -> <<>>

SyntaxError == [ok |-> FALSE, value |-> Null, next |-> 0]

RECURSIVE parseValue(_, _)
RECURSIVE parseMembers(_, _, _)
\* after "{" or ",": "name" : value, then "," or "}"
parseMembers(text, i, props) ==
  IF i + 1 > Len(text) \/ text[i][1] # "string" \/ text[i + 1] # Tok("punct", ":")
    THEN SyntaxError
    ELSE LET r == parseValue(text, i + 2)
         IN IF ~r.ok \/ r.next > Len(text) THEN SyntaxError
            ELSE LET more == Append(props, <<text[i][2], r.value>>)
                 IN IF text[r.next] = Tok("punct", "}")
                      THEN [ok |-> TRUE, value |-> Obj(more), next |-> r.next + 1]
                    ELSE IF text[r.next] = Tok("punct", ",")
                      THEN parseMembers(text, r.next + 1, more)
                    ELSE SyntaxError

parseValue(text, i) ==
  IF i > Len(text) THEN SyntaxError
  ELSE LET t == text[i]
       IN CASE t[1] = "number" -> [ok |-> TRUE, value |-> Num(t[2]), next |-> i + 1]
            [] t[1] = "string" -> [ok |-> TRUE, value |-> Str(t[2]), next |-> i + 1]
            [] t[1] = "literal" ->
                 [ok |-> TRUE, next |-> i + 1,
                  value |-> IF t[2] = "null" THEN Null ELSE Bool(t[2])]
            [] t = Tok("punct", "{") ->
                 IF i + 1 <= Len(text) /\ text[i + 1] = Tok("punct", "}")
                   THEN [ok |-> TRUE, value |-> Obj(<<>>), next |-> i + 2]
                   ELSE parseMembers(text, i + 1, <<>>)
            [] OTHER -> SyntaxError

JSON_parse_Shallow(text) ==
  LET r == parseValue(text, 1)
  IN IF r.ok THEN [r EXCEPT !.value = IF @[1] = "object" THEN Obj(<<>>) ELSE @]
     ELSE SyntaxError

\* JSON.parse(text): the value, or a SyntaxError
JSON_parse(text) ==
  LET r == parseValue(text, 1)
  IN IF r.ok /\ r.next = Len(text) + 1 THEN r ELSE SyntaxError

\* ---- keys and patterns: task:{id}:user:{includeUser}
taskKey(id, includeUser) == <<"task", ":">> \o id \o <<":", "user", ":", includeUser>>

\* KEYS pattern: * matches any run of pieces
RECURSIVE Match(_, _)
Match(pattern, k) ==
  IF pattern = <<>> THEN k = <<>>
  ELSE IF Head(pattern) = "*"
    THEN Match(Tail(pattern), k) \/ (k # <<>> /\ Match(pattern, Tail(k)))
  ELSE k # <<>> /\ Head(k) = Head(pattern) /\ Match(Tail(pattern), Tail(k))

\* ---- the store's commands on string keys
\* an entry: the stored text and its expiry; value, setAt and ttlSeconds keep
\* the arguments of the set that wrote it
Entry_NoExpiry(text, seconds, v, ttlArg) ==
  [text |-> text, expireAt |-> now + (defaultTTL + seconds) * MsPerSecond * MsPerSecond,
   value |-> v, setAt |-> now, ttlSeconds |-> ttlArg]

Entry(text, seconds, v, ttlArg) ==
  [text |-> text, expireAt |-> now + seconds * MsPerSecond,
   value |-> v, setAt |-> now, ttlSeconds |-> ttlArg]

\* SETEX key seconds value
setex(k, e) == [j \in DOMAIN kv \cup {k} |-> IF j = k THEN e ELSE kv[j]]

\* GET key
redisGet(k) ==
  IF k \in DOMAIN kv THEN [nil |-> FALSE, text |-> kv[k].text]
                     ELSE [nil |-> TRUE, text |-> <<>>]

\* DEL key [key ...]
del(ks) == [j \in DOMAIN kv \ ks |-> kv[j]]

\* KEYS pattern, listed in the order the store walks its keys
keys(pattern, order) ==
  SelectSeq(order, LAMBDA k : k \in DOMAIN kv /\ Match(pattern, k))

Min(a, b) == IF a <= b THEN a ELSE b

slice_ShortBatch(ks, i, j) == {ks[n] : n \in (i + 1)..Min(j - 1, Len(ks))}

\* keys.slice(i, i + batchSize)
slice(ks, i, j) == {ks[n] : n \in (i + 1)..Min(j, Len(ks))}

\* ---- one cache operation
IdleOp ==
  [pc |-> "idle", op |-> "none", startTime |-> 0,
   key |-> <<>>, value |-> Null, ttlSeconds |-> NoArg,
   text |-> <<>>, ttl |-> 0, pattern |-> <<>>, keys |-> <<>>, i |-> 0, totalDeleted |-> 0,
   healthyAtCall |-> TRUE, sent |-> 0, failed |-> FALSE, error |-> "", threw |-> FALSE,
   retValue |-> Null, retFlag |-> FALSE, retCount |-> 0]

CacheIdle == \A p \in DOMAIN cache : cache[p].pc \in {"idle", "returned"}

\* one request at a time, a bounded number of them
OneAtATime == CacheIdle /\ cacheOps < MaxCacheOps

\* const ttl = ttlSeconds || this.defaultTTL
ttlOf(ttlArg) == IF ttlArg = NoArg \/ ttlArg = 0 THEN defaultTTL ELSE ttlArg

\* markUnhealthy(recoveryDelayMs)
markUnhealthy(recoveryDelayMs) ==
  /\ isHealthy' = FALSE
  /\ timers' = timers \cup {now + recoveryDelayMs}

catchBlock_Rethrow(c) == [c EXCEPT !.pc = "returned", !.failed = TRUE, !.threw = TRUE]

\* catch (error) { log; markUnhealthy; return the operation's empty result }
catchBlock(c) ==
  [c EXCEPT !.pc = "returned", !.failed = TRUE,
            !.retValue = Null, !.retFlag = FALSE, !.retCount = 0]

skipped_Proceed(c) == [c EXCEPT !.healthyAtCall = FALSE, !.sent = 1]

\* if (!this.isHealthy) { warn; return }
skipped(c) == [c EXCEPT !.pc = "returned", !.healthyAtCall = FALSE]

\* a cache operation is entered on behalf of caller p
EnterOp(p, c) ==
  /\ cache[p].pc \in {"idle", "returned"}
  /\ cacheOps' = cacheOps + 1
  /\ cache' = [cache EXCEPT ![p] = IF isHealthy
                                     THEN [c EXCEPT !.startTime = now, !.sent = 1]
                                     ELSE skipped([c EXCEPT !.startTime = now])]
  /\ UNCHANGED <<now, otherVars, kv, connVars, db>>

\* the operation is called directly
Enter(p, c) == EnterOp(p, c) /\ UNCHANGED svc

setOp(k, v, ttlArg) ==
  [IdleOp EXCEPT !.pc = "setex", !.op = "set", !.key = k, !.value = v,
                 !.ttlSeconds = ttlArg, !.ttl = ttlOf(ttlArg), !.text = JSON_stringify(v)]

getOp(k) == [IdleOp EXCEPT !.pc = "get", !.op = "get", !.key = k]

deleteOp(k) == [IdleOp EXCEPT !.pc = "del", !.op = "delete", !.key = k]

invalidateOp(pattern) ==
  [IdleOp EXCEPT !.pc = "keys", !.op = "invalidatePattern", !.pattern = pattern]

\* set(key, value, ttlSeconds?)
CacheSet(p, k, v, ttlArg) == Enter(p, setOp(k, v, ttlArg))

\* get(key)
CacheGet(p, k) == Enter(p, getOp(k))

\* delete(key)
CacheDelete(p, k) == Enter(p, deleteOp(k))

\* invalidatePattern(pattern)
CacheInvalidate(p, pattern) == Enter(p, invalidateOp(pattern))

\* the client can run a command: the connection is ready and the store is there
Usable == up /\ status = "ready"

\* await this.redis.setex(key, ttl, serialized) resolves
Setex(p) ==
  /\ cache[p].pc = "setex"
  /\ Usable
  /\ kv' = setex(cache[p].key,
                 Entry(cache[p].text, cache[p].ttl, cache[p].value, cache[p].ttlSeconds))
  /\ cache' = [cache EXCEPT ![p].pc = "returned"]
  /\ UNCHANGED <<now, otherVars, connVars, cacheOps, db, svc>>

\* await this.redis.get(key) resolves; if (value) return JSON.parse(value)
GetReply(p) ==
  /\ cache[p].pc = "get"
  /\ Usable
  /\ LET value == redisGet(cache[p].key)
         parsed == JSON_parse(value.text)
     IN IF ~value.nil /\ value.text # <<>>
          THEN IF parsed.ok
                 THEN /\ cache' = [cache EXCEPT ![p].pc = "returned",
                                                ![p].retValue = parsed.value]
                      /\ UNCHANGED <<isHealthy, timers>>
                 ELSE /\ cache' = [cache EXCEPT ![p] =
                                         catchBlock([@ EXCEPT !.error = "SyntaxError"])]
                      /\ markUnhealthy(RecoveryDelayMs)
          ELSE /\ cache' = [cache EXCEPT ![p].pc = "returned", ![p].retValue = Null]
               /\ UNCHANGED <<isHealthy, timers>>
  /\ UNCHANGED <<now, otherVars, kv, status, reconnectAttempts, retry, cacheOps, db, svc>>

\* await this.redis.del(key) resolves; return result > 0
DelReply(p) ==
  /\ cache[p].pc = "del"
  /\ Usable
  /\ kv' = del({cache[p].key})
  /\ cache' = [cache EXCEPT ![p].pc = "returned",
                            ![p].retFlag = Cardinality(DOMAIN kv \cap {cache[p].key}) > 0]
  /\ UNCHANGED <<now, otherVars, connVars, cacheOps, db, svc>>

\* await this.redis.keys(pattern) resolves
KeysReply(p, order) ==
  /\ cache[p].pc = "keys"
  /\ Usable
  /\ LET reply == keys(cache[p].pattern, order)
     IN cache' = [cache EXCEPT ![p].keys = reply,
                               ![p].pc = IF Len(reply) = 0 THEN "returned" ELSE "delBatch",
                               ![p].sent = IF Len(reply) = 0 THEN @ ELSE @ + 1]
  /\ UNCHANGED <<now, otherVars, kv, connVars, cacheOps, db, svc>>

\* one turn of the loop: await this.redis.del(...batch) resolves
DelBatch(p) ==
  /\ cache[p].pc = "delBatch"
  /\ Usable
  /\ LET c == cache[p]
         batch == slice(c.keys, c.i, c.i + batchSize)
         deleted == Cardinality(DOMAIN kv \cap batch)
         more == c.i + batchSize < Len(c.keys)
     IN /\ kv' = del(batch)
        /\ cache' = [cache EXCEPT ![p].i = c.i + batchSize,
                                  ![p].totalDeleted = c.totalDeleted + deleted,
                                  ![p].retCount = IF more THEN @ ELSE c.totalDeleted + deleted,
                                  ![p].pc = IF more THEN "delBatch" ELSE "returned",
                                  ![p].sent = IF more THEN @ + 1 ELSE @]
  /\ UNCHANGED <<now, otherVars, connVars, cacheOps, db, svc>>

\* the awaited command rejects (the connection is gone and the retries of the
\* request are used up): the catch block runs
Rejected(p) ==
  /\ cache[p].pc \in {"setex", "get", "del", "keys", "delBatch"}
  /\ ~up
  /\ status # "ready"
  /\ cache' = [cache EXCEPT ![p] = catchBlock([@ EXCEPT !.error = "connection"])]
  /\ markUnhealthy(RecoveryDelayMs)
  /\ UNCHANGED <<now, otherVars, kv, status, reconnectAttempts, retry, cacheOps, db, svc>>

\* getHealthStatus()
getHealthStatus == isHealthy /\ status = "ready"

\* ---- the connection's events and the recovery timers
\* redis.on('connect')
OnConnect ==
  /\ status = "connecting"
  /\ up
  /\ status' = "connect"
  /\ isHealthy' = TRUE
  /\ reconnectAttempts' = 0
  /\ UNCHANGED <<now, otherVars, kv, retry, timers, cache, cacheOps, db, svc>>

\* redis.on('ready')
OnReady ==
  /\ status = "connect"
  /\ up
  /\ status' = "ready"
  /\ retry' = [retry EXCEPT !.attempts = 0]
  /\ UNCHANGED <<now, otherVars, kv, isHealthy, reconnectAttempts, timers, cache, cacheOps, db, svc>>

\* redis.on('error'): the socket reports an error, or a connection attempt fails
OnError ==
  /\ status \in {"connecting", "connect", "ready"}
  /\ ~up
  /\ isHealthy
  /\ isHealthy' = FALSE
  /\ UNCHANGED <<now, otherVars, kv, status, reconnectAttempts, retry, timers, cache, cacheOps, db, svc>>

\* redis.on('close')
OnClose ==
  /\ status \in {"connecting", "connect", "ready"}
  /\ ~up
  /\ status' = "close"
  /\ isHealthy' = FALSE
  /\ UNCHANGED <<now, otherVars, kv, reconnectAttempts, retry, timers, cache, cacheOps, db, svc>>

\* retryStrategy: (times) => Math.min(times * 50, 2000)
retryStrategy_GivesUp(times) ==
  IF times * RetryStepMs > RetryCapMs THEN NoDelay ELSE times * RetryStepMs
retryStrategy(times) == Min(times * RetryStepMs, RetryCapMs)

\* after 'close' the client asks retryStrategy(++retryAttempts): a number is
\* the delay of the next dial and 'reconnecting' is emitted with it, anything
\* else ends the connection for good; redis.on('reconnecting') counts the event
Reconnecting(last) ==
  /\ status = "close"
  /\ retry.attempts < last
  /\ LET delay == retryStrategy(retry.attempts + 1)
     IN /\ retry' = [attempts |-> retry.attempts + 1, delay |-> delay]
        /\ status' = IF delay # NoDelay THEN "reconnecting" ELSE "end"
        /\ reconnectAttempts' = IF delay # NoDelay THEN reconnectAttempts + 1
                                                   ELSE reconnectAttempts
  /\ UNCHANGED <<now, otherVars, kv, isHealthy, timers, cache, cacheOps, db, svc>>

OnReconnecting == Reconnecting(MaxReconnects)

\* the delay of retryStrategy (shorter than a clock step) is over: the client
\* dials again
Redial ==
  /\ status = "reconnecting"
  /\ status' = "connecting"
  /\ UNCHANGED <<now, otherVars, kv, isHealthy, reconnectAttempts, retry, timers, cache, cacheOps, db, svc>>

\* the store is reachable again, after the client saw its connection close
\* (an outage outlasts the time the client takes to notice it)
Reachable ==
  /\ status \notin {"connect", "ready"}
  /\ StoreUp

RecoveryTimer_Forgets(t) ==
  /\ t \in timers
  /\ now >= t
  /\ timers' = timers \ {t}
  /\ UNCHANGED <<now, otherVars, kv, status, isHealthy, reconnectAttempts, retry, cache,
                 cacheOps, db, svc>>

\* the callback of markUnhealthy's setTimeout
RecoveryTimer(t) ==
  /\ t \in timers
  /\ now >= t
  /\ timers' = timers \ {t}
  /\ isHealthy' = IF status = "ready" THEN TRUE ELSE isHealthy
  /\ UNCHANGED <<now, otherVars, kv, status, reconnectAttempts, retry, cache, cacheOps, db, svc>>

\* the clock advances while no cache operation is in flight and no timer is due
CacheTick(d, last) ==
  /\ CacheIdle
  /\ \A t \in timers : t > now
  /\ Tick(d, last)

\* ============================================= TasksService over the cache
\* task 1 in the system of record, at revision db
TaskKey == taskKey(<<"1">>, "false")
TaskPattern == <<"task", ":", "1", ":", "*">>
TaskAt(revision) ==
  Obj(<< <<"id", Num("1")>>, <<"title", Str(ToString(revision))>> >>)

IdleSvc == [pc |-> "idle", kind |-> "none", loaded |-> 0, floor |-> 0, ret |-> Null]

\* the newest revision whose update call has returned
Invalidated ==
  LET done == {svc[w].loaded : w \in {x \in DOMAIN svc : svc[x].kind = "update"
                                                         /\ svc[x].pc = "done"}}
  IN IF done = {} THEN 0 ELSE CHOOSE r \in done : \A q \in done : q <= r

svcFrame == <<now, otherVars, kv, connVars, cache, cacheOps>>

\* findOne(): check the cache before the database query
FindOne(p) ==
  /\ svc[p].pc = "idle"
  /\ EnterOp(p, getOp(TaskKey))
  /\ svc' = [svc EXCEPT ![p].pc = "get", ![p].kind = "findOne", ![p].floor = Invalidated]

\* the get has returned: a hit is the answer, a miss goes to the database
FindOneGot(p) ==
  /\ svc[p].pc = "get"
  /\ cache[p].pc = "returned"
  /\ svc' = [svc EXCEPT ![p].pc = IF cache[p].retValue # Null THEN "done" ELSE "query",
                        ![p].ret = cache[p].retValue]
  /\ UNCHANGED <<svcFrame, db>>

\* the database answers; the result is stored with the 5-minute TTL
FindOneLoaded(p) ==
  /\ svc[p].pc = "query"
  /\ EnterOp(p, setOp(TaskKey, TaskAt(db), defaultTTL))
  /\ svc' = [svc EXCEPT ![p].pc = "set", ![p].loaded = db, ![p].ret = TaskAt(db)]

FindOneReturn(p) ==
  /\ svc[p].pc = "set"
  /\ cache[p].pc = "returned"
  /\ svc' = [svc EXCEPT ![p].pc = "done"]
  /\ UNCHANGED <<svcFrame, db>>

\* update(): the transaction commits
UpdateSave(p, last) ==
  /\ svc[p].pc = "idle"
  /\ db < last
  /\ db' = db + 1
  /\ svc' = [svc EXCEPT ![p].pc = "saved", ![p].kind = "update", ![p].loaded = db + 1]
  /\ UNCHANGED svcFrame

\* update(): pattern-based invalidation after the successful update
UpdateInvalidate(p) ==
  /\ svc[p].pc = "saved"
  /\ EnterOp(p, invalidateOp(TaskPattern))
  /\ svc' = [svc EXCEPT ![p].pc = "invalidate"]

UpdateReturn(p) ==
  /\ svc[p].pc = "invalidate"
  /\ cache[p].pc = "returned"
  /\ svc' = [svc EXCEPT ![p].pc = "done"]
  /\ UNCHANGED <<svcFrame, db>>

\* ============================================ the HTTP pipeline of AppModule
\* the APP_INTERCEPTOR providers of AppModule, in the order of registration
GlobalInterceptors == <<"LoggingInterceptor", "RateLimitInterceptor">>

\* the route's metadata: @SkipRateLimit(), @RateLimit({ limit, ttl, keyPrefix, skipIf })
Route(skip, options, condition) ==
  [skipRateLimit |-> skip, options |-> options, skipIf |-> condition]
Unlimited == Route(FALSE, FALSE, "none")
Excluded == Route(TRUE, TRUE, "none")
Limited == Route(FALSE, TRUE, "none")
ExceptAdmins == Route(FALSE, TRUE, "admin")
Routes == {Unlimited, Excluded, Limited, ExceptAdmins}

\* request.user: nobody, or account 42 signed in as a user or as an admin
Anonymous == [id |-> "", role |-> ""]
Member == [id |-> "42", role |-> "user"]
Admin == [id |-> "42", role |-> "admin"]
Users == {Anonymous, Member, Admin}

\* skipIf: (context) => request.user?.role === 'admin'
skipIf(route, user) == route.skipIf = "admin" /\ user.role = "admin"

\* the tracking key of the request in the store
TrackedKey(user) == IF user.id # "" THEN "user:42" ELSE "ip:9f86"

\* an optional string of the request: a header, an address, the keyPrefix
Given(text) == [set |-> TRUE, text |-> text]
Absent == [set |-> FALSE, text |-> << >>]
Truthy(value) == value.set /\ value.text # << >>

\* text.split(',')[0]
FirstEntry(text) ==
  LET commas == {i \in DOMAIN text : text[i] = ","}
  IN IF commas = {} THEN text
     ELSE SubSeq(text, 1, (CHOOSE i \in commas : \A j \in commas : i <= j) - 1)

\* text.trim()
RECURSIVE Trim(_)
Trim(text) ==
  IF text = << >> THEN text
  ELSE IF Head(text) = " " THEN Trim(Tail(text))
  ELSE IF text[Len(text)] = " " THEN Trim(SubSeq(text, 1, Len(text) - 1))
  ELSE text

\* x-forwarded-for?.split(',')[0]?.trim() || x-real-ip || connection.remoteAddress
\* || socket.remoteAddress || req.ip || 'unknown'
getClientIp(request) ==
  LET forwarded == IF request.forwardedFor.set
                     THEN Trim(FirstEntry(request.forwardedFor.text)) ELSE << >>
  IN IF forwarded # << >> THEN forwarded
     ELSE IF Truthy(request.realIp) THEN request.realIp.text
     ELSE IF Truthy(request.connection) THEN request.connection.text
     ELSE IF Truthy(request.socket) THEN request.socket.text
     ELSE IF Truthy(request.ip) THEN request.ip.text
     ELSE <<"unknown">>

\* createHash('sha256').update(ip).digest('hex').substring(0, 16)
hashIp_Raw(ip) == ip

hashIp(ip) ==
  CASE ip = <<"203.0.113.7">> -> <<"fec52565aa0cf18f">>
    [] ip = <<"198.51.100.4">> -> <<"14915055e8377734">>
    [] ip = <<"10.0.0.1">> -> <<"f5047344122f0dee">>
    [] ip = <<"10.0.0.9">> -> <<"232337896e547ba4">>
    [] ip = <<"10.0.0.5">> -> <<"0546412d61ba57f1">>
    [] ip = <<"unknown">> -> <<"b23a6a8439c0dde5">>
    [] ip = << >> -> <<"e3b0c44298fc1c14">>

\* generateKey(req, prefix)
generateKey(request, prefix) ==
  LET basePrefix == IF Truthy(prefix) THEN prefix.text ELSE <<"custom">>
  IN IF Truthy(request.user)
       THEN basePrefix \o <<":", "user", ":">> \o request.user.text
       ELSE basePrefix \o <<":", "ip", ":">> \o hashIp(getClientIp(request))

NoOrigin ==
  [user |-> Absent, forwardedFor |-> Absent, realIp |-> Absent, connection |-> Absent,
   socket |-> Absent, ip |-> Absent]

NoHeaders == [limit |-> NotSet, remaining |-> NotSet, reset |-> NotSet, retryAfter |-> NotSet]
NoBody == [statusCode |-> 0]
NewPipe ==
  [stage |-> "new", route |-> Unlimited, user |-> Anonymous, entered |-> 0,
   steps |-> << >>, callId |-> 0, headers |-> NoHeaders, thrown |-> NoBody, body |-> NoBody,
   request |-> NoOrigin, prefix |-> Absent, key |-> << >>]

\* const key = this.generateKey(request, customOptions.keyPrefix)
GenerateKey(r) ==
  /\ pipe[r].stage = "new"
  /\ pipe' = [pipe EXCEPT ![r].stage = "keyed",
                          ![r].key = generateKey(pipe[r].request, pipe[r].prefix)]
  /\ UNCHANGED <<now, storeVars, rlVars, gateVars, cacheVars>>

Entering(r, name) ==
  /\ pipe[r].stage = "chain"
  /\ pipe[r].entered < Len(GlobalInterceptors)
  /\ GlobalInterceptors[pipe[r].entered + 1] = name

\* a request reaches the interceptors (one request at a time)
Arrive(r, route, user) ==
  /\ pipe[r].stage = "new"
  /\ \A q \in DOMAIN pipe : q < r => pipe[q].stage = "done"
  /\ pipe' = [pipe EXCEPT ![r].stage = "chain", ![r].route = route, ![r].user = user]
  /\ UNCHANGED <<now, storeVars, rlVars, gateVars, cacheVars>>

\* LoggingInterceptor.intercept: logs and returns next.handle()
LoggingIntercept(r) ==
  /\ Entering(r, "LoggingInterceptor")
  /\ pipe' = [pipe EXCEPT ![r].entered = @ + 1,
                          ![r].steps = Append(@, <<"LoggingInterceptor", "intercept">>)]
  /\ UNCHANGED <<now, storeVars, rlVars, gateVars, cacheVars>>

\* RateLimitInterceptor.intercept up to the await: a route that is excluded or
\* has no options goes on to next.handle(); otherwise checkRateLimit is entered
\* with the generated key
RateLimitIntercept(r, p) ==
  /\ Entering(r, "RateLimitInterceptor")
  /\ IF pipe[r].route.skipRateLimit \/ ~pipe[r].route.options
       THEN /\ pipe' = [pipe EXCEPT ![r].entered = @ + 1,
                          ![r].steps = Append(@, <<"RateLimitInterceptor", "next.handle">>)]
            /\ UNCHANGED <<now, storeVars, rlVars, gateVars, cacheVars>>
       ELSE /\ BeginCall(p, TrackedKey(pipe[r].user))
            /\ pipe' = [pipe EXCEPT ![r].stage = "check", ![r].callId = nextId + 1,
                          ![r].steps = Append(@, <<"RateLimitInterceptor", "checkRateLimit">>)]

\* the response object of the HttpException thrown by RateLimitInterceptor
tooManyRequests(result) ==
  [statusCode |-> TooManyRequests,
   message |-> "Too many requests. Please try again later.",
   error |-> "Too Many Requests",
   limit |-> result.limit, remaining |-> result.remaining,
   reset |-> result.reset, retryAfter |-> result.retryAfter]

\* HttpExceptionFilter.catch: the body written by response.status(status).json()
\* (path, timestamp and correlationId belong to the request and are left out)
catch(exception) ==
  [success |-> FALSE, statusCode |-> exception.statusCode,
   message |-> exception.message, error |-> exception.error]

\* RateLimitInterceptor.intercept after the await: the headers, then either
\* the exception (which the global filter turns into the response) or next.handle()
RateLimitResume(r) ==
  /\ pipe[r].stage = "check"
  /\ \E result \in calls :
       /\ result.id = pipe[r].callId
       /\ LET headers == [limit |-> result.limit, remaining |-> result.remaining,
                          reset |-> result.reset,
                          retryAfter |-> IF result.allowed THEN NotSet ELSE result.retryAfter]
          IN pipe' = IF result.allowed
               THEN [pipe EXCEPT ![r].stage = "chain", ![r].entered = @ + 1,
                                 ![r].headers = headers]
               ELSE [pipe EXCEPT ![r].stage = "done", ![r].headers = headers,
                                 ![r].thrown = tooManyRequests(result),
                                 ![r].body = catch(tooManyRequests(result)),
                                 ![r].steps = Append(@, <<"RateLimitInterceptor", "throw">>)]
  /\ UNCHANGED <<now, storeVars, rlVars, gateVars, cacheVars>>

\* every interceptor has called next.handle(): the route handler runs
Handler(r) ==
  /\ pipe[r].stage = "chain"
  /\ pipe[r].entered = Len(GlobalInterceptors)
  /\ pipe' = [pipe EXCEPT ![r].stage = "done", ![r].body = [statusCode |-> 200],
                          ![r].steps = Append(@, <<"handler", "invoke">>)]
  /\ UNCHANGED <<now, storeVars, rlVars, gateVars, cacheVars>>

\* ==================================================================== init
StoreInit ==
  /\ now = 0
  /\ up = TRUE
  /\ zset = [k \in Keys |-> {}]
  /\ expireAt = [k \in Keys |-> NoTTL]

RateLimitInit(limits, windows) ==
  /\ limit \in limits
  /\ windowSeconds \in windows
  /\ rl = [p \in Callers |-> IdleCall]
  /\ nextId = 0
  /\ calls = {}

BackpressureInit(values, arriving) ==
  /\ configured \in values
  /\ maxConcurrent = constructorMax(configured)
  /\ activeRequests = 0
  /\ wasAtCapacity = FALSE
  /\ lastCapacityWarning = NoWarning
  /\ req = [r \in arriving |-> NewRequest]
  /\ pipe = << >>

\* the cache layer once its client is connected and ready
CacheInit(entries, callers) ==
  /\ kv = entries
  /\ status = "ready"
  /\ isHealthy = TRUE
  /\ reconnectAttempts = 0
  /\ retry = [attempts |-> 0, delay |-> 0]
  /\ timers = {}
  /\ cache = [p \in callers |-> IdleOp]
  /\ cacheOps = 0
  /\ db = 1
  /\ svc = [p \in callers |-> IdleSvc]

NoEntries == [k \in {} |-> IdleOp]

Init ==
  /\ StoreInit
  /\ RateLimitInit(1..MaxLimit, WindowChoices)
  /\ BackpressureInit(ConfiguredMax, Reqs)
  /\ CacheInit(NoEntries, CacheCallers)

Next ==
  \/ Tick(TickMs, MaxTicks * TickMs)
  \/ StoreDown
  \/ StoreUp
  \/ \E p \in Callers, k \in Keys : Begin(p, k)
  \/ \E p \in Callers : Zrem(p) \/ Zcard(p) \/ Zadd(p) \/ Expire(p) \/ Return(p) \/ Throw(p)
  \/ \E r \in Reqs : Intercept(r) \/ Complete(r) \/ Fail(r) \/ Timeout(r) \/ Unsubscribe(r)
  \/ \E p \in Callers, k \in Keys : BeginStatus(p, k) \/ BeginReset(p, k)
  \/ \E p \in Callers : StatusZrem(p) \/ StatusZcard(p) \/ ResetDel(p)
  \/ \E p \in DOMAIN cache :
       /\ svc[p].pc \in {"idle", "done"}
       /\ \/ CacheSet(p, TaskKey, TaskAt(db), NoArg)
          \/ CacheGet(p, TaskKey)
          \/ CacheDelete(p, TaskKey)
          \/ CacheInvalidate(p, TaskPattern)
  \/ \E p \in DOMAIN cache :
       Setex(p) \/ GetReply(p) \/ DelReply(p) \/ KeysReply(p, <<TaskKey>>) \/ DelBatch(p)
         \/ Rejected(p)
  \/ OnConnect \/ OnReady \/ OnError \/ OnClose \/ OnReconnecting \/ Redial
  \/ \E t \in timers : RecoveryTimer(t)
  \/ \E p \in DOMAIN svc :
       FindOne(p) \/ FindOneGot(p) \/ FindOneLoaded(p) \/ FindOneReturn(p)
         \/ UpdateSave(p, MaxRevision) \/ UpdateInvalidate(p) \/ UpdateReturn(p)
  \/ \E r \in DOMAIN pipe :
       \/ \E route \in Routes, user \in Users : Arrive(r, route, user)
       \/ LoggingIntercept(r) \/ RateLimitResume(r) \/ Handler(r) \/ GenerateKey(r)
       \/ \E p \in Callers : RateLimitIntercept(r, p)

Spec == Init /\ [][Next]_vars

\* ------------------------------------------------ the rate limiter alone
\* (an interceptor with the default maximum that no request reaches)
RateLimitOnly ==
  /\ StoreInit
  /\ RateLimitInit(1..MaxLimit, WindowChoices)
  /\ BackpressureInit({Unset}, {})
  /\ CacheInit(NoEntries, {})

\* callers on any instance, their store commands interleaved; the store is up
RateLimitNext ==
  \/ Tick(TickMs, MaxTicks * TickMs)
  \/ \E p \in Callers, k \in Keys : Begin(p, k)
  \/ \E p \in Callers : Zrem(p)
  \/ \E p \in Callers : Zcard(p)
  \/ \E p \in Callers : Zadd(p)
  \/ \E p \in Callers : Expire(p)
  \/ \E p \in Callers : Return(p)

RateLimitSpec == RateLimitOnly /\ [][RateLimitNext]_vars

\* callers whose pipelines are delayed: the clock also advances between a call's
\* Date.now() and the arrival of its commands at the store
MaxDelayedCalls == 2

DelayedNext ==
  \/ Advance(windowMs, MaxTicks * windowMs)
  \/ \E p \in Callers, k \in Keys : nextId < MaxDelayedCalls /\ Begin(p, k)
  \/ \E p \in Callers : Zrem(p)
  \/ \E p \in Callers : Zcard(p)
  \/ \E p \in Callers : Zadd(p)
  \/ \E p \in Callers : Expire(p)
  \/ \E p \in Callers : Return(p)

DelayedSpec == RateLimitOnly /\ [][DelayedNext]_vars

\* successive checkRateLimit and getRateLimitStatus calls; the store is up
PeekNext ==
  \/ Tick(TickMs, MaxTicks * TickMs)
  \/ \E p \in Callers, k \in Keys : AllIdle /\ Begin(p, k)
  \/ \E p \in Callers, k \in Keys : AllIdle /\ BeginStatus(p, k)
  \/ \E p \in Callers : Zrem(p)
  \/ \E p \in Callers : Zcard(p)
  \/ \E p \in Callers : Zadd(p)
  \/ \E p \in Callers : Expire(p)
  \/ \E p \in Callers : Return(p)
  \/ \E p \in Callers : StatusZrem(p)
  \/ \E p \in Callers : StatusZcard(p)

PeekSpec == RateLimitOnly /\ [][PeekNext]_vars

\* successive checkRateLimit calls for any key and resetRateLimit calls for one
\* key; the store is up
ResetKey == "user:42"

ResetNext ==
  \/ Tick(TickMs, MaxTicks * TickMs)
  \/ \E p \in Callers, k \in Keys : AllIdle /\ Begin(p, k)
  \/ \E p \in Callers : AllIdle /\ BeginReset(p, ResetKey)
  \/ \E p \in Callers : Zrem(p)
  \/ \E p \in Callers : Zcard(p)
  \/ \E p \in Callers : Zadd(p)
  \/ \E p \in Callers : Expire(p)
  \/ \E p \in Callers : Return(p)
  \/ \E p \in Callers : ResetDel(p)

ResetSpec == RateLimitOnly /\ [][ResetNext]_vars

\* successive calls: a call starts when no other is in flight; the store is up
SuccessiveNext ==
  \/ Tick(TickMs, MaxTicks * TickMs)
  \/ \E p \in Callers, k \in Keys : AllIdle /\ Begin(p, k)
  \/ \E p \in Callers : Zrem(p)
  \/ \E p \in Callers : Zcard(p)
  \/ \E p \in Callers : Zadd(p)
  \/ \E p \in Callers : Expire(p)
  \/ \E p \in Callers : Return(p)

SuccessiveSpec == RateLimitOnly /\ [][SuccessiveNext]_vars

\* successive calls against a store that goes down and comes back
OutageNext ==
  \/ Tick(TickMs, MaxTicks * TickMs)
  \/ StoreDown
  \/ StoreUp
  \/ \E p \in Callers, k \in Keys : AllIdle /\ nextId < MaxOutageCalls /\ Begin(p, k)
  \/ \E p \in Callers : Zrem(p)
  \/ \E p \in Callers : Zcard(p)
  \/ \E p \in Callers : Zadd(p)
  \/ \E p \in Callers : Expire(p)
  \/ \E p \in Callers : Return(p)
  \/ \E p \in Callers : Throw(p)

OutageSpec == RateLimitOnly /\ [][OutageNext]_vars

\* ------------------------------------------------ the interceptor alone
BackpressureOnly ==
  /\ StoreInit
  /\ RateLimitInit({1}, {1})
  /\ BackpressureInit(ConfiguredMax, Reqs)
  /\ CacheInit(NoEntries, {})

BackpressureNext ==
  \/ Tick(BpTickMs, BpMaxTicks * BpTickMs)
  \/ \E r \in Reqs : Intercept(r)
  \/ \E r \in Reqs : Complete(r)
  \/ \E r \in Reqs : Fail(r)
  \/ \E r \in Reqs : Timeout(r)
  \/ \E r \in Reqs : Unsubscribe(r)

BackpressureSpec == BackpressureOnly /\ [][BackpressureNext]_vars

\* any MAX_CONCURRENT_REQUESTS the environment may hold: not set, empty,
\* numbers with and without sign, strings that are no numbers
Misconfigured ==
  ConfiguredMax \cup {Unset, Env(<< >>), Env(<<"+", "2">>), Env(<<"-", "0">>),
                      Env(<<"1", "0", "0", "0">>), Env(<<"a", "b", "c">>), Env(<<"5", "x">>)}

ConstructInit ==
  /\ StoreInit
  /\ RateLimitInit({1}, {1})
  /\ BackpressureInit(Misconfigured, Reqs)
  /\ CacheInit(NoEntries, {})

ConstructNext ==
  \/ \E r \in Reqs : r <= NLiveReq /\ Intercept(r)
  \/ \E r \in Reqs : Complete(r)
  \/ \E r \in Reqs : Fail(r)

ConstructSpec == ConstructInit /\ [][ConstructNext]_vars

\* requests on rate-limited and other routes, one after the other, against a
\* store that is up
PipeReqs == 1..NPipeReq

PipelineInit ==
  /\ StoreInit
  /\ RateLimitInit({1}, {1})
  /\ configured = Unset
  /\ maxConcurrent = constructorMax(configured)
  /\ activeRequests = 0
  /\ wasAtCapacity = FALSE
  /\ lastCapacityWarning = NoWarning
  /\ req = << >>
  /\ pipe = [r \in PipeReqs |-> NewPipe]
  /\ CacheInit(NoEntries, {})

PipelineNext ==
  \/ Tick(TickMs, MaxTicks * TickMs)
  \/ \E r \in PipeReqs, route \in Routes, user \in Users : Arrive(r, route, user)
  \/ \E r \in PipeReqs : LoggingIntercept(r)
  \/ \E r \in PipeReqs, p \in Callers : RateLimitIntercept(r, p)
  \/ \E p \in Callers : Zrem(p)
  \/ \E p \in Callers : Zcard(p)
  \/ \E p \in Callers : Zadd(p)
  \/ \E p \in Callers : Expire(p)
  \/ \E p \in Callers : Return(p)
  \/ \E r \in PipeReqs : RateLimitResume(r)
  \/ \E r \in PipeReqs : Handler(r)

PipelineSpec == PipelineInit /\ [][PipelineNext]_vars

\* requests of every kind of caller behind and without a reverse proxy, each
\* keyed once
KeyedUsers == {Absent, Given(<< >>), Given(<<"42">>)}
ForwardedFor ==
  {Absent, Given(<< >>), Given(<<"203.0.113.7">>),
   Given(<<" ", "203.0.113.7", " ", ",", " ", "10.0.0.1">>),
   Given(<<" ", ",", " ", "10.0.0.1">>), Given(<<" ">>)}
Origins ==
  [user : KeyedUsers, forwardedFor : ForwardedFor,
   realIp : {Absent, Given(<<"198.51.100.4">>)},
   connection : {Absent, Given(<<"10.0.0.1">>)},
   socket : {Absent, Given(<<"10.0.0.9">>)},
   ip : {Absent, Given(<<"10.0.0.5">>)}]
Prefixes == {Absent, Given(<< >>), Given(<<"reports", ":", "generate">>)}

KeyInit ==
  /\ StoreInit
  /\ RateLimitInit({1}, {1})
  /\ configured = Unset
  /\ maxConcurrent = constructorMax(configured)
  /\ activeRequests = 0
  /\ wasAtCapacity = FALSE
  /\ lastCapacityWarning = NoWarning
  /\ req = << >>
  /\ \E request \in Origins, prefix \in Prefixes :
       pipe = [r \in {1} |-> [NewPipe EXCEPT !.request = request, !.prefix = prefix]]
  /\ CacheInit(NoEntries, {})

KeyNext == \E r \in DOMAIN pipe : GenerateKey(r)

KeySpec == KeyInit /\ [][KeyNext]_vars

\* the timer armed by timeout(timeoutMs) fires unless the request has finished
BackpressureLiveNext ==
  \/ Tick(BpTickMs, BpMaxTicks * BpTickMs)
  \/ \E r \in Reqs : r <= NLiveReq /\ Intercept(r)
  \/ \E r \in Reqs : Complete(r)
  \/ \E r \in Reqs : Fail(r)
  \/ \E r \in Reqs : Timeout(r)
  \/ \E r \in Reqs : Unsubscribe(r)

BackpressureLiveSpec ==
  /\ BackpressureOnly
  /\ [][BackpressureLiveNext]_vars
  /\ \A r \in Reqs : WF_vars(Timeout(r))

\* ------------------------------------------------ the cache layer alone
\* one request at a time uses the cache; the store goes down and comes back,
\* the client loses the connection and dials again, the recovery timers fire
Writer == CHOOSE p \in CacheCallers : \A q \in CacheCallers : p <= q
Reader == Writer + 1

CacheOnly(entries, callers) ==
  /\ StoreInit
  /\ RateLimitInit({1}, {1})
  /\ BackpressureInit({Unset}, {})
  /\ CacheInit(entries, callers)

TaskA == taskKey(<<"1">>, "false")
TaskB == taskKey(<<"1", "2">>, "false")
Legacy == <<"legacy", ":", "1">>
Blank == <<"blank">>

TaskValue(title) ==
  Obj(<< <<"id", Num("1")>>, <<"title", Str(title)>>,
         <<"user", Obj(<< <<"name", Str("ann")>>, <<"admin", Bool("false")>> >>)>> >>)

\* entries another client of the store left behind: a truncated payload and
\* an empty string, both without a useful expiry inside a behaviour
Foreign(text) ==
  [text |-> text, expireAt |-> (MaxCacheTicks + 1) * CacheTickMs,
   value |-> Undefined, setAt |-> 0, ttlSeconds |-> NoArg]

ForeignEntries ==
  [k \in {Legacy, Blank} |->
     IF k = Legacy THEN Foreign(<<Tok("punct", "{"), Tok("string", "id")>>)
                   ELSE Foreign(<<>>)]

HealthKeys == {TaskA, Legacy, Blank}
HealthOrder == <<TaskA, Legacy, Blank>>
HealthPatterns == {<<"task", ":", "1", ":", "*">>}
HealthTTLs == {NoArg, CacheTickMs \div MsPerSecond}

CacheHealthInit == CacheOnly(ForeignEntries, {Writer})

CacheHealthNext ==
  \/ CacheTick(CacheTickMs, MaxCacheTicks * CacheTickMs)
  \/ StoreDown
  \/ Reachable
  \/ \E p \in DOMAIN cache, t \in HealthTTLs :
       OneAtATime /\ CacheSet(p, TaskA, TaskValue("draft"), t)
  \/ \E p \in DOMAIN cache, k \in HealthKeys : OneAtATime /\ CacheGet(p, k)
  \/ \E p \in DOMAIN cache, k \in HealthKeys : OneAtATime /\ CacheDelete(p, k)
  \/ \E p \in DOMAIN cache, pt \in HealthPatterns : OneAtATime /\ CacheInvalidate(p, pt)
  \/ \E p \in DOMAIN cache : Setex(p)
  \/ \E p \in DOMAIN cache : GetReply(p)
  \/ \E p \in DOMAIN cache : DelReply(p)
  \/ \E p \in DOMAIN cache : KeysReply(p, HealthOrder)
  \/ \E p \in DOMAIN cache : DelBatch(p)
  \/ \E p \in DOMAIN cache : Rejected(p)
  \/ OnConnect
  \/ OnReady
  \/ OnError
  \/ OnClose
  \/ OnReconnecting
  \/ Redial
  \/ \E t \in timers : RecoveryTimer(t)

CacheHealthSpec == CacheHealthInit /\ [][CacheHealthNext]_vars

\* the same layer with reads only, a clock that runs on for one recovery delay
\* after the last read may start, and a client, a store and timers that do
\* not stall: a reply that can arrive arrives, a lost connection is noticed,
\* time passes and a timer that is due fires
CacheLiveNext ==
  \/ CacheTick(CacheTickMs, MaxCacheTicks * CacheTickMs + RecoveryDelayMs)
  \/ StoreDown
  \/ Reachable
  \/ \E p \in DOMAIN cache, k \in HealthKeys :
       OneAtATime /\ now <= MaxCacheTicks * CacheTickMs /\ CacheGet(p, k)
  \/ \E p \in DOMAIN cache : GetReply(p)
  \/ \E p \in DOMAIN cache : Rejected(p)
  \/ OnConnect
  \/ OnReady
  \/ OnError
  \/ OnClose
  \/ OnReconnecting
  \/ Redial
  \/ \E t \in timers : RecoveryTimer(t)

CacheLiveSpec ==
  /\ CacheHealthInit
  /\ [][CacheLiveNext]_vars
  /\ WF_vars(CacheTick(CacheTickMs, MaxCacheTicks * CacheTickMs + RecoveryDelayMs))
  /\ WF_vars(\E t \in timers : RecoveryTimer(t))
  /\ WF_vars(\E p \in DOMAIN cache : GetReply(p))
  /\ WF_vars(\E p \in DOMAIN cache : Rejected(p))
  /\ WF_vars(OnClose)

\* ------------------------------------------------ reconnection
\* the store goes down and comes back; dials fail while it is down
MaxRetries == 41

ReconnectInit == CacheOnly(NoEntries, {})

ReconnectNext ==
  \/ StoreDown
  \/ Reachable
  \/ OnConnect
  \/ OnReady
  \/ OnError
  \/ OnClose
  \/ Reconnecting(MaxRetries)
  \/ Redial

ReconnectSpec == ReconnectInit /\ [][ReconnectNext]_vars

\* ------------------------------------------------ both services, outages
\* one request at a time calls an operation of CacheService or of
\* RateLimitService while the store goes down and comes back
OneCall == OneAtATime /\ AllIdle /\ cacheOps + nextId < MaxCacheOps

AbsorbInit == CacheOnly(ForeignEntries, {Writer})

AbsorbNext ==
  \/ StoreDown
  \/ Reachable
  \/ \E p \in DOMAIN cache : OneCall /\ CacheSet(p, TaskA, TaskValue("draft"), NoArg)
  \/ \E p \in DOMAIN cache, k \in HealthKeys : OneCall /\ CacheGet(p, k)
  \/ \E p \in DOMAIN cache, k \in HealthKeys : OneCall /\ CacheDelete(p, k)
  \/ \E p \in DOMAIN cache, pt \in HealthPatterns : OneCall /\ CacheInvalidate(p, pt)
  \/ \E p \in DOMAIN cache : Setex(p)
  \/ \E p \in DOMAIN cache : GetReply(p)
  \/ \E p \in DOMAIN cache : DelReply(p)
  \/ \E p \in DOMAIN cache : KeysReply(p, HealthOrder)
  \/ \E p \in DOMAIN cache : DelBatch(p)
  \/ \E p \in DOMAIN cache : Rejected(p)
  \/ OnConnect
  \/ OnReady
  \/ OnError
  \/ OnClose
  \/ OnReconnecting
  \/ Redial
  \/ \E p \in Callers, k \in Keys : OneCall /\ Begin(p, k)
  \/ \E p \in Callers, k \in Keys : OneCall /\ BeginStatus(p, k)
  \/ \E p \in Callers, k \in Keys : OneCall /\ BeginReset(p, k)
  \/ \E p \in Callers : Zrem(p)
  \/ \E p \in Callers : Zcard(p)
  \/ \E p \in Callers : Zadd(p)
  \/ \E p \in Callers : Expire(p)
  \/ \E p \in Callers : Return(p)
  \/ \E p \in Callers : Throw(p)
  \/ \E p \in Callers : StatusZrem(p)
  \/ \E p \in Callers : StatusZcard(p)
  \/ \E p \in Callers : ResetDel(p)

AbsorbSpec == AbsorbInit /\ [][AbsorbNext]_vars

\* ------------------------------------------------ cache-aside
\* every caller makes one findOne or update call for task 1; the calls and
\* their store commands interleave; the store is up and the cache healthy
CacheAsideInit == CacheOnly(NoEntries, CacheCallers)

CacheAsideNext ==
  \/ \E p \in DOMAIN svc : FindOne(p)
  \/ \E p \in DOMAIN svc : FindOneGot(p)
  \/ \E p \in DOMAIN svc : FindOneLoaded(p)
  \/ \E p \in DOMAIN svc : FindOneReturn(p)
  \/ \E p \in DOMAIN svc : UpdateSave(p, MaxRevision)
  \/ \E p \in DOMAIN svc : UpdateInvalidate(p)
  \/ \E p \in DOMAIN svc : UpdateReturn(p)
  \/ \E p \in DOMAIN cache : Setex(p)
  \/ \E p \in DOMAIN cache : GetReply(p)
  \/ \E p \in DOMAIN cache : KeysReply(p, <<TaskKey>>)
  \/ \E p \in DOMAIN cache : DelBatch(p)

CacheAsideSpec == CacheAsideInit /\ [][CacheAsideNext]_vars

\* ------------------------------------------------ a healthy cache
\* writers are one caller and readers another, one request at a time; the store
\* stays up and the clock moves in steps of half the default TTL
RoundTripValues ==
  {TaskValue("draft"), Num("0"), Str(""), Null, Bool("false"), Obj(<<>>), Num("NaN"),
   Obj(<< <<"id", Num("1")>>, <<"dueDate", DateOf("2025-01-01T00:00:00.000Z")>>,
          <<"description", Undefined>> >>)}

RoundTripTTLs == {NoArg, 0, defaultTTL \div 2}

RoundTripInit == CacheOnly(NoEntries, {Writer, Reader})

RoundTripNext ==
  \/ CacheTick(TtlTickMs, MaxCacheTicks * TtlTickMs)
  \/ \E k \in {TaskA, TaskB}, v \in RoundTripValues, t \in RoundTripTTLs :
       OneAtATime /\ CacheSet(Writer, k, v, t)
  \/ \E k \in {TaskA, TaskB} : OneAtATime /\ CacheGet(Reader, k)
  \/ \E p \in DOMAIN cache : Setex(p)
  \/ \E p \in DOMAIN cache : GetReply(p)

RoundTripSpec == RoundTripInit /\ [][RoundTripNext]_vars

\* ------------------------------------------------ pattern invalidation
\* a store that holds 0, 1, batchSize or batchSize + 1 task entries and two
\* unrelated keys; invalidations and reads, one request at a time
BulkKey(n) == taskKey(<<ToString(n)>>, "false")
UserKey == <<"user", ":", "9">>
StatsKey == <<"task", "s", ":", "stats">>

BulkCounts == {0, 1, batchSize, batchSize + 1}

BulkEntries(n) ==
  [k \in {BulkKey(j) : j \in 1..n} \cup {UserKey, StatsKey} |->
     Entry(JSON_stringify(TaskValue("draft")), defaultTTL, TaskValue("draft"), NoArg)]

\* the order in which KEYS lists what it finds: one order, or its reverse
BulkOrder ==
  [j \in 1..(batchSize + 3) |->
     IF j <= batchSize + 1 THEN BulkKey(j)
     ELSE IF j = batchSize + 2 THEN UserKey ELSE StatsKey]

Reverse(order) == [j \in 1..Len(order) |-> order[Len(order) + 1 - j]]

BulkPatterns ==
  {<<"task", ":", "*">>, <<"task", ":", "1", ":", "*">>, <<"user", ":", "*">>, <<"order", ":", "*">>}

InvalidateInit ==
  /\ StoreInit
  /\ RateLimitInit({1}, {1})
  /\ BackpressureInit({Unset}, {})
  /\ \E n \in BulkCounts : CacheInit(BulkEntries(n), {Writer, Reader})

InvalidateNext ==
  \/ \E pt \in BulkPatterns : OneAtATime /\ CacheInvalidate(Writer, pt)
  \/ \E k \in {BulkKey(batchSize + 1), UserKey} : OneAtATime /\ CacheGet(Reader, k)
  \/ \E p \in DOMAIN cache, order \in {BulkOrder, Reverse(BulkOrder)} : KeysReply(p, order)
  \/ \E p \in DOMAIN cache : DelBatch(p)
  \/ \E p \in DOMAIN cache : GetReply(p)

InvalidateSpec == InvalidateInit /\ [][InvalidateNext]_vars

\* one invalidation, during which the store may go away and the connection close
PartialInit ==
  /\ StoreInit
  /\ RateLimitInit({1}, {1})
  /\ BackpressureInit({Unset}, {})
  /\ \E n \in BulkCounts : CacheInit(BulkEntries(n), {Writer})

PartialNext ==
  \/ StoreDown
  \/ OnError
  \/ OnClose
  \/ \E pt \in BulkPatterns : cacheOps = 0 /\ OneAtATime /\ CacheInvalidate(Writer, pt)
  \/ \E p \in DOMAIN cache, order \in {BulkOrder, Reverse(BulkOrder)} : KeysReply(p, order)
  \/ \E p \in DOMAIN cache : DelBatch(p)
  \/ \E p \in DOMAIN cache : Rejected(p)

PartialSpec == PartialInit /\ [][PartialNext]_vars

\* ================================================================== claims
\* the calls for key k stamped in the window that ends at t: (t - windowMs, t]
InWindow(k, t) == {c \in calls : c.key = k /\ t - windowMs < c.ts /\ c.ts <= t}

\* the calls for c's key in c's window that came before c
Before(c) == {d \in InWindow(c.key, c.ts) : d.id < c.id}

Times == {n * TickMs : n \in 0..MaxTicks}

Held == {r \in Reqs : req[r].st = "active"}

Arrived == {r \in Reqs : req[r].st # "new"}

\* C1: with the store reachable, of successive calls for one key within one
\* window that starts empty, the first `limit` are allowed and the (limit+1)-th
\* is rejected.
C1_LimitThenReject ==
  \A c \in calls :
    LET j == Cardinality(Before(c)) + 1
    IN /\ j <= limit => c.allowed
       /\ j = limit + 1 => ~c.allowed

C1_Witness ==
  \E c \in calls : limit > 1 /\ Cardinality(Before(c)) = limit /\ ~c.allowed
                   /\ \A d \in Before(c) : d.allowed

\* C2: under every interleaving of the store commands of concurrent callers,
\* the calls for one key that are allowed within one window never number more
\* than limit (the four commands of a call act as one atomic unit).
C2_AtomicUnderInterleaving ==
  \A c \in calls :
    Cardinality({d \in InWindow(c.key, c.ts) : d.allowed}) <= limit

\* C3: with the store reachable, for every key and every time t, at most
\* `limit` of the calls stamped in (t - windowSeconds*1000, t] are allowed.
C3_SlidingWindowBound ==
  \A k \in Keys, t \in Times :
    Cardinality({c \in InWindow(k, t) : c.allowed}) <= limit

\* C4: a call whose store round trip could not complete because the store was
\* unreachable returns allowed = true and remaining = limit.
C4_FailOpenFullLimit ==
  \A c \in calls :
    c.path # "ok" => c.allowed /\ c.remaining = c.limit

\* C5: 0 <= activeRequests <= maxConcurrent in every reachable state.
C5_CounterInRange ==
  0 <= activeRequests /\ activeRequests <= maxConcurrent

C5_Witness ==
  /\ maxConcurrent > 1
  /\ activeRequests = maxConcurrent
  /\ \E r \in Reqs : req[r].st = "rejected"

\* C6: activeRequests is the number of admitted requests whose guarded work
\* has not finished; an admitted request increments once and, when it finishes
\* (completion, error, unsubscription), decrements once; a rejected request
\* neither increments nor decrements.
C6_CounterIsHeld ==
  /\ activeRequests = Cardinality(Held)
  /\ \A r \in Reqs :
       /\ req[r].st = "active" => req[r].incs = 1 /\ req[r].decs = 0
       /\ req[r].st = "done" => req[r].incs = 1 /\ req[r].decs = 1
       /\ req[r].st \in {"new", "rejected"} => req[r].incs = 0 /\ req[r].decs = 0

C6_Witness ==
  /\ \E r \in Reqs : req[r].outcome = "errored"
  /\ \E r \in Reqs : req[r].outcome = "unsubscribed"
  /\ \E r \in Reqs : req[r].outcome = "completed"
  /\ \E r \in Reqs : req[r].st = "rejected"
  /\ Held # {}

\* C7: a request that was admitted and is then cancelled or times out has its
\* increment taken back: eventually it is decremented once and no longer held.
C7_CancelledIsReleased ==
  \A r \in Reqs :
    (req[r].outcome \in {"timeout", "unsubscribed"})
      ~> (req[r].decs = 1 /\ activeRequests = Cardinality(Held) /\ r \notin Held)

C7_Witness ==
  /\ \E r \in Reqs : req[r].outcome = "timeout" /\ req[r].decs = 1
  /\ \E r \in Reqs : req[r].outcome = "unsubscribed" /\ req[r].decs = 1
  /\ Held # {}

\* C8: when no more than maxConcurrent requests have arrived, none of them was
\* rejected, and once all of them have finished activeRequests is 0.
C8_PairsReturnToZero ==
  Cardinality(Arrived) <= maxConcurrent =>
    /\ \A r \in Arrived : req[r].st # "rejected"
    /\ (\A r \in Arrived : req[r].st = "done") => activeRequests = 0

C8_Witness ==
  /\ maxConcurrent > 1
  /\ Cardinality(Arrived) = maxConcurrent
  /\ \A r \in Arrived : req[r].st = "done"
  /\ activeRequests = 0

\* C9: an intercept call made while maxConcurrent admitted requests are
\* unreleased is rejected; one made while maxConcurrent - 1 are unreleased
\* (one of them was released) is admitted.
C9_RejectAtMaxAdmitBelow ==
  [][\A r \in Reqs :
       (req[r].st = "new" /\ req'[r].st # "new") =>
         /\ Cardinality(Held) = maxConcurrent => req'[r].st = "rejected"
         /\ Cardinality(Held) = maxConcurrent - 1 => req'[r].st = "active"]_vars

C9_Witness ==
  \E r1, r2 \in Reqs :
    /\ r1 < r2
    /\ req[r1].st = "rejected"
    /\ Cardinality({q \in Reqs : q < r1 /\ req[q].st # "rejected"}) = maxConcurrent
    /\ Cardinality({q \in Reqs : q < r1 /\ req[q].st = "done"}) = 1
    /\ req[r2].st = "active"
    /\ activeRequests = maxConcurrent

\* C10: intercept rejects exactly when activeRequests >= maxConcurrent; a
\* rejection is a 503 with retryAfter 5 and Retry-After: 5, is logged, does
\* not invoke the handler and leaves activeRequests unchanged.
C10_RejectIffSaturated ==
  [][\A r \in Reqs :
       (req[r].st = "new" /\ req'[r].st # "new") =>
         /\ (req'[r].st = "rejected") <=> (activeRequests >= maxConcurrent)
         /\ req'[r].st = "rejected" =>
              /\ req'[r].response.status = 503
              /\ req'[r].response.retryAfter = 5
              /\ req'[r].response.header = "5"
              /\ req'[r].rejectLogged
              /\ ~req'[r].handled
              /\ activeRequests' = activeRequests
         /\ req'[r].st = "active" => req'[r].handled /\ ~req'[r].rejectLogged]_vars

C10_Witness ==
  \E r \in Reqs :
    /\ req[r].st = "rejected"
    /\ req[r].response = rejection
    /\ activeRequests = maxConcurrent

\* cache operation p returns in this step
Returns(p, op) ==
  /\ cache'[p] # cache[p]
  /\ cache'[p].pc = "returned"
  /\ cache'[p].op = op

\* the step is the call itself: the operation returned at its health check
AtEntry(p) == cache[p].pc \in {"idle", "returned"}

\* C11: get never throws; it returns the value that was set on a hit, and null
\* on a miss, on a payload that does not deserialize, on a store failure and,
\* without a command to the store, when the layer is unhealthy; while the
\* store is disconnected every get returns null.
C11_GetReturnsValueOrNull ==
  [][\A p \in DOMAIN cache :
       Returns(p, "get") =>
         LET c == cache'[p]
             k == c.key
             answered == ~AtEntry(p) /\ Usable
         IN /\ ~c.threw
            /\ (answered /\ k \in DOMAIN kv /\ kv[k].value # Undefined)
                 => c.retValue = kv[k].value
            /\ (answered /\ k \notin DOMAIN kv) => c.retValue = Null
            /\ (answered /\ k \in DOMAIN kv /\ kv[k].value = Undefined)
                 => c.retValue = Null
            /\ ~answered => c.retValue = Null
            /\ ~isHealthy /\ AtEntry(p) => c.sent = 0 /\ c.retValue = Null
            /\ ~up => c.retValue = Null]_vars

C11_Witness ==
  \E p \in DOMAIN cache :
    /\ cache[p].op = "get" /\ cache[p].pc = "returned"
    /\ cache[p].key = TaskA /\ TaskA \in DOMAIN kv
    /\ cache[p].retValue = TaskValue("draft")
    /\ Legacy \in DOMAIN kv

\* a value JSON represents: no NaN, no Date, no undefined property
RECURSIVE Serializable(_)
Serializable(v) ==
  \/ v[1] \in {"string", "boolean", "null"}
  \/ v[1] = "number" /\ v[2] # "NaN"
  \/ v[1] = "object" /\ \A n \in 1..Len(v[3]) : Serializable(v[3][n][2])

\* C12: on a healthy cache, a get(k) that follows set(k, v, ttl) immediately
\* returns a value equal to v (v serializable), and a get(k) made ttl seconds
\* or more after that set, with no set in between, returns null.
C12_SetThenGet ==
  [][\A p \in DOMAIN cache :
       Returns(p, "get") =>
         \A w \in DOMAIN cache :
           LET set == cache[w]
               ttl == set.ttlSeconds
           IN (set.op = "set" /\ set.pc = "returned" /\ set.key = cache'[p].key) =>
                /\ (Serializable(set.value) /\ cache'[p].startTime = set.startTime)
                     => cache'[p].retValue = set.value
                /\ (ttl > 0 /\ cache'[p].startTime >= set.startTime + ttl * MsPerSecond)
                     => cache'[p].retValue = Null]_vars

C12_Witness ==
  /\ cache[Writer].op = "set" /\ cache[Writer].pc = "returned"
  /\ cache[Writer].ttlSeconds > 0
  /\ cache[Writer].value = TaskValue("draft")
  /\ cache[Reader].op = "get" /\ cache[Reader].pc = "returned"
  /\ cache[Reader].key = cache[Writer].key
  /\ cache[Reader].startTime >= cache[Writer].startTime + cache[Writer].ttlSeconds * MsPerSecond
  /\ cache[Reader].retValue = Null

\* C13: on a healthy cache with one request at a time, invalidatePattern(p)
\* leaves no key that matches p and leaves every key that does not match p in
\* place with its value, whether 0, 1 or more than batchSize keys match.
C13_InvalidateMatchingOnly ==
  [][\A p \in DOMAIN cache :
       (cache[p].op = "invalidatePattern" /\ cache'[p] # cache[p]) =>
         /\ \A k \in DOMAIN kv :
              ~Match(cache[p].pattern, k) => k \in DOMAIN kv' /\ kv'[k] = kv[k]
         /\ cache'[p].pc = "returned" =>
              \A k \in DOMAIN kv' : ~Match(cache[p].pattern, k)]_vars

C13_Witness ==
  /\ cache[Writer].op = "invalidatePattern" /\ cache[Writer].pc = "returned"
  /\ Len(cache[Writer].keys) > batchSize
  /\ cache[Writer].retCount = Len(cache[Writer].keys)
  /\ DOMAIN kv = {UserKey, StatsKey}
  /\ kv[StatsKey].value = TaskValue("draft")

\* C14: after a cache operation failed because the connection was gone, the
\* layer reports unhealthy during the 30 seconds that follow the failure,
\* whatever connection events and timers occur in them.
C14_UnhealthyForWholeWindow ==
  \A p \in DOMAIN cache :
    (/\ cache[p].pc = "returned"
     /\ cache[p].error = "connection"
     /\ now < cache[p].startTime + RecoveryDelayMs)
      => ~getHealthStatus

\* C15: a set, delete or invalidatePattern called while the layer is unhealthy
\* sends no command to the store and leaves the store as it is; set returns
\* normally, delete returns false and invalidatePattern returns 0.
C15_UnhealthyWritesAreNoOps ==
  [][\A p \in DOMAIN cache :
       (/\ AtEntry(p)
        /\ cache'[p] # cache[p]
        /\ cache'[p].op \in {"set", "delete", "invalidatePattern"}
        /\ ~isHealthy)
         => /\ cache'[p].pc = "returned"
            /\ cache'[p].sent = 0
            /\ kv' = kv
            /\ ~cache'[p].threw
            /\ cache'[p].retFlag = FALSE
            /\ cache'[p].retCount = 0]_vars

C15_Witness ==
  \E p \in DOMAIN cache :
    /\ cache[p].op = "delete" /\ cache[p].pc = "returned"
    /\ ~cache[p].healthyAtCall
    /\ cache[p].key = TaskA /\ TaskA \in DOMAIN kv
    /\ cache[p].sent = 0 /\ ~cache[p].retFlag
    /\ up /\ status = "ready"

\* C16: whether the store is unreachable or a payload does not deserialize,
\* every operation of CacheService and of RateLimitService ends in a normal
\* return: no exception reaches the caller.
C16_FailuresAreAbsorbed ==
  [][/\ \A p \in DOMAIN cache :
          (cache'[p] # cache[p] /\ cache'[p].pc = "returned") => ~cache'[p].threw
     /\ \A p \in Callers :
          (rl[p].pc # "idle" /\ rl'[p].pc = "idle") =>
            IF rl[p].op = "check"
              THEN \E c \in calls' : c.id = rl[p].id /\ c.allowed \in BOOLEAN
              ELSE rl'[p].id = rl[p].id /\ rl'[p].ret.path \in {"ok", "thrown"}]_vars

C16_Witness ==
  /\ \E p \in DOMAIN cache : cache[p].pc = "returned" /\ cache[p].error = "connection"
  /\ \E p \in Callers : rl[p].op = "status" /\ rl[p].ret.path = "thrown"
                         /\ rl[p].ret.allowed

\* C17: whatever the interleaving of cache-aside readers with a writer that
\* updates the task and then invalidates its keys, a get called after the
\* invalidation of revision r has completed returns no revision older than r.
C17_NoStaleReadAfterInvalidation ==
  \A p \in DOMAIN svc :
    (svc[p].kind = "findOne" /\ svc[p].pc = "done" /\ svc[p].loaded = 0) =>
      \A r \in 1..MaxRevision : r < svc[p].floor => svc[p].ret # TaskAt(r)

\* the calls for c's key that were made before c
Earlier(c) == {e \in calls : e.key = c.key /\ e.id < c.id}

\* C18: when windowSeconds have passed since the last of the earlier calls for
\* a key, rejected ones included, the next checkRateLimit for the key returns
\* allowed = true with remaining = limit - 1, as on an empty window.
C18_IdleWindowStartsAfresh ==
  \A c \in calls :
    (\A e \in Earlier(c) : e.ts + windowMs <= c.ts) =>
      c.allowed /\ c.remaining = limit - 1

C18_Witness ==
  \E c \in calls :
    /\ \E e \in Earlier(c) : ~e.allowed /\ e.ts + windowMs = c.ts
    /\ \A e \in Earlier(c) : e.ts + windowMs <= c.ts
    /\ c.allowed /\ c.remaining = limit - 1

\* the members of key k that are inside the window of a call stamped t
NonStale(k, t) == {m \in zset[k] : m[1] > windowStart(t)}

\* C19: for every checkRateLimit call whose commands reach the store, with c
\* the number of non-stale members of the key's window when ZCARD runs, before
\* the call's own member is inserted: allowed = (c < limit) and
\* remaining = max(0, limit - c - 1).
C19_ResultFromCountBeforeInsertion ==
  [][\A p \in Callers :
       /\ (rl[p].pc = "zcard" /\ rl'[p].pc = "zadd") =>
            /\ rl'[p].count = Cardinality(NonStale(rl[p].key, rl[p].now))
            /\ \A m \in zset[rl[p].key] : m[2] # rl[p].id
       /\ (rl[p].pc = "exec" /\ rl'[p].pc = "idle") =>
            \E r \in calls' \ calls :
              /\ r.id = rl[p].id
              /\ r.allowed = (rl[p].count < limit)
              /\ r.remaining = Max(0, limit - rl[p].count - 1)]_vars

\* the score of the oldest member of c's window when c was made
Oldest(c) ==
  LET scores == {d.ts : d \in Before(c)}
  IN CHOOSE t \in scores : \A u \in scores : t <= u

\* C20: whenever checkRateLimit returns allowed = false, retryAfter is the
\* number of seconds, rounded up, until the oldest member of the key's window
\* leaves the window (oldest score + windowSeconds*1000 - now), and so lies
\* between 1 and windowSeconds.
C20_RetryAfterUntilOldestLeaves ==
  \A c \in calls :
    ~c.allowed =>
      /\ c.retryAfter = CeilDiv(Oldest(c) + windowMs - c.ts, MsPerSecond)
      /\ 1 <= c.retryAfter /\ c.retryAfter <= windowSeconds

\* C21: getRateLimitStatus never inserts a member and leaves the non-stale
\* members of every key's window as they were; its allowed is (count of
\* non-stale members < limit); and the result of every checkRateLimit is what
\* the checkRateLimit calls before it alone determine, peeks or no peeks.
C21_PeekConsumesNothing ==
  [][/\ \A p \in Callers :
          (rl[p].op = "status" /\ rl[p].pc # "idle") =>
            /\ \A k \in Keys : NonStale(k, rl[p].now)' = NonStale(k, rl[p].now)
            /\ \A k \in Keys : zset'[k] \subseteq zset[k]
            /\ rl'[p].pc = "idle" =>
                 rl'[p].ret.allowed = (Cardinality(NonStale(rl[p].key, rl[p].now)) < limit)
     /\ \A c \in calls' :
          /\ c.count = Cardinality(Before(c)')
          /\ c.allowed = (Cardinality(Before(c)') < limit)
          /\ c.remaining = Max(0, limit - Cardinality(Before(c)') - 1)]_vars

\* a checkRateLimit call made after a peek that followed an earlier call in the
\* same window
C21_Witness ==
  \E c \in calls : \E e \in Before(c) : \E i \in 1..MaxCalls :
    /\ e.id < i /\ i < c.id
    /\ \A d \in calls : d.id # i
    /\ ~c.allowed

\* the resetRateLimit calls made before the checkRateLimit call c (in a
\* behaviour whose other calls are all checkRateLimit calls), and the last one
ResetsBefore(c) == {i \in 1..c.id : \A d \in calls : d.id # i}

LastReset(c) ==
  IF ResetsBefore(c) = {} THEN 0
  ELSE CHOOSE i \in ResetsBefore(c) : \A j \in ResetsBefore(c) : j <= i

\* C22: with the store reachable, when resetRateLimit(key) returns the key has no
\* window entry and the other keys' windows are as before; a checkRateLimit
\* for the key counts only the calls made since the last reset, so the first
\* one after a reset is allowed with remaining = limit - 1.
C22_ResetEmptiesOnlyThatKey ==
  [][/\ \A p \in Callers :
          (rl[p].pc = "del" /\ rl'[p].pc = "idle") =>
            /\ zset'[rl[p].key] = {} /\ expireAt'[rl[p].key] = NoTTL
            /\ \A k \in Keys \ {rl[p].key} :
                 zset'[k] = zset[k] /\ expireAt'[k] = expireAt[k]
     /\ \A c \in calls' :
          LET since == IF c.key = ResetKey
                         THEN {e \in Before(c)' : e.id > LastReset(c)'}
                         ELSE Before(c)'
          IN /\ c.count = Cardinality(since)
             /\ since = {} => c.allowed /\ c.remaining = limit - 1]_vars

\* a call that is allowed right after a reset although the window had been
\* used up
C22_Witness ==
  \E c \in calls :
    /\ c.key = ResetKey
    /\ Cardinality(Before(c)) >= limit
    /\ \A e \in Before(c) : e.id < LastReset(c)
    /\ c.allowed /\ c.remaining = limit - 1

\* C23: reconnection never gives up: for every attempt number n >= 1 the
\* retry strategy answers with the delay min(n*50, 2000) ms and the client
\* goes on to reconnect; each reconnecting event adds one to reconnectAttempts;
\* a successful connect sets reconnectAttempts to 0 and healthy to true.
C23_RetryForeverCountAndReset ==
  [][/\ status' # "end"
     /\ (status = "close" /\ status' # "close") =>
          LET n == retry'.attempts
          IN /\ n = retry.attempts + 1 /\ n >= 1
             /\ retry'.delay = (IF n * 50 <= 2000 THEN n * 50 ELSE 2000)
             /\ status' = "reconnecting"
             /\ reconnectAttempts' = reconnectAttempts + 1
     /\ (status = "connecting" /\ status' = "connect") =>
          reconnectAttempts' = 0 /\ isHealthy'
     /\ reconnectAttempts' \in {reconnectAttempts, reconnectAttempts + 1, 0}]_vars

\* the dial after the 41st reconnecting event, delayed by the capped 2000 ms,
\* succeeds
C23_Witness ==
  /\ status = "connect"
  /\ retry.attempts > 40 /\ retry.delay = 2000
  /\ reconnectAttempts = 0 /\ isHealthy

\* C24: whatever MAX_CONCURRENT_REQUESTS is configured, construction ends with
\* maxConcurrent > 0, and with 1000 when the configured value is not positive;
\* so the first request is admitted (not every request is rejected) and the
\* admitted requests never number more than maxConcurrent.
C24_ConstructionLeavesPositiveMax ==
  /\ maxConcurrent # NaN /\ maxConcurrent > 0
  /\ (configured.set /\ StringToNumber(configured.text) # NaN
        /\ StringToNumber(configured.text) <= 0) => maxConcurrent = 1000
  /\ \A r \in Reqs : req[r].st = "rejected" => \E q \in Reqs : q < r /\ req[q].incs > 0
  /\ activeRequests <= maxConcurrent

\* ------------------------------------------------------------------ C25
HasStep(r, step) == \E i \in DOMAIN pipe[r].steps : pipe[r].steps[i] = step
StepBefore(r, first, second) ==
  \A i \in DOMAIN pipe[r].steps :
    pipe[r].steps[i] = second => \E j \in 1..(i - 1) : pipe[r].steps[j] = first

\* C25: on a rate-limited route the steps of a request come in this order:
\* the admission check of BackpressureInterceptor, then checkRateLimit, then
\* the handler, then the release of BackpressureInterceptor; a request that
\* reaches checkRateLimit or the handler has passed the admission check first,
\* and a request that is over has been released after its handler
C25_AdmissionLimitHandlerRelease ==
  \A r \in DOMAIN pipe :
    (pipe[r].route.options /\ ~pipe[r].route.skipRateLimit) =>
      /\ StepBefore(r, <<"BackpressureInterceptor", "intercept">>,
                   <<"RateLimitInterceptor", "checkRateLimit">>)
      /\ StepBefore(r, <<"RateLimitInterceptor", "checkRateLimit">>, <<"handler", "invoke">>)
      /\ (pipe[r].stage = "done" /\ HasStep(r, <<"handler", "invoke">>)) =>
           StepBefore(r, <<"handler", "invoke">>, <<"BackpressureInterceptor", "finalize">>)
           /\ HasStep(r, <<"BackpressureInterceptor", "finalize">>)

\* ------------------------------------------------------------------ C26
ResultOf(r) == CHOOSE result \in calls : result.id = pipe[r].callId
Checked(r) == pipe[r].callId # 0 /\ \E result \in calls : result.id = pipe[r].callId
Budget == {"limit", "remaining", "reset", "retryAfter"}

\* C26: on a route with @RateLimit options the handler runs only if
\* checkRateLimit returned allowed = true; after allowed = false the handler
\* never runs and the response is a 429 whose headers and body carry limit,
\* remaining, reset and retryAfter; the X-RateLimit headers are set on admitted
\* requests too
C26_HandlerOnlyIfAllowedElse429 ==
  \A r \in DOMAIN pipe :
    (pipe[r].route.options /\ ~pipe[r].route.skipRateLimit) =>
      /\ HasStep(r, <<"handler", "invoke">>) => Checked(r) /\ ResultOf(r).allowed
      /\ (Checked(r) /\ pipe[r].stage # "check") =>
           /\ pipe[r].headers.limit = ResultOf(r).limit
           /\ pipe[r].headers.remaining = ResultOf(r).remaining
           /\ pipe[r].headers.reset = ResultOf(r).reset
      /\ (Checked(r) /\ ~ResultOf(r).allowed /\ pipe[r].stage = "done") =>
           /\ ~HasStep(r, <<"handler", "invoke">>)
           /\ pipe[r].body.statusCode = TooManyRequests
           /\ pipe[r].headers.retryAfter = ResultOf(r).retryAfter
           /\ Budget \subseteq DOMAIN pipe[r].body
           /\ \A field \in Budget \cap DOMAIN pipe[r].body :
                pipe[r].body[field] = pipe[r].thrown[field]

\* ------------------------------------------------------------------ C28
\* C28: a request for which the route's skipIf returns true is not rate limited
\* by RateLimitInterceptor: checkRateLimit is not called for it, it adds no
\* member to the window of its key, and it is not answered with 429
C28_SkipIfBypassesTheInterceptor ==
  \A r \in DOMAIN pipe :
    (pipe[r].route.options /\ ~pipe[r].route.skipRateLimit
       /\ skipIf(pipe[r].route, pipe[r].user)) =>
      /\ pipe[r].callId = 0
      /\ ~HasStep(r, <<"RateLimitInterceptor", "checkRateLimit">>)
      /\ pipe[r].body.statusCode # TooManyRequests

\* ------------------------------------------------------------------ C27
Keyed == {r \in DOMAIN pipe : pipe[r].stage = "keyed"}
BasePrefix(r) == IF Truthy(pipe[r].prefix) THEN pipe[r].prefix.text ELSE <<"custom">>
\* the addresses the request came with
Addresses(r) ==
  LET request == pipe[r].request
  IN ({request.forwardedFor.text[i] : i \in DOMAIN request.forwardedFor.text}
        \cup {Head(v.text) : v \in {w \in {request.realIp, request.connection,
                                            request.socket, request.ip} : Truthy(w)}})
     \ {" ", ","}
Pieces(text) == {text[i] : i \in DOMAIN text}
\* the origin without a forwarded-address header
Transport(r) == getClientIp([pipe[r].request EXCEPT !.forwardedFor = Absent])

\* C27 as stated: a request with a user id is keyed prefix:user:id whatever its
\* addresses; an anonymous one is keyed by the hash of its origin, which is the
\* trimmed first entry of x-forwarded-for whenever that header is present and
\* non-empty; no raw address appears in the key
C27_ForwardedHeaderAlwaysWins ==
  \A r \in Keyed :
    /\ Truthy(pipe[r].request.user) =>
         pipe[r].key = BasePrefix(r) \o <<":", "user", ":">> \o pipe[r].request.user.text
    /\ (~Truthy(pipe[r].request.user) /\ Truthy(pipe[r].request.forwardedFor)) =>
         pipe[r].key = BasePrefix(r) \o <<":", "ip", ":">>
                         \o hashIp(Trim(FirstEntry(pipe[r].request.forwardedFor.text)))
    /\ Pieces(pipe[r].key) \cap Addresses(r) = {}

\* C27, amended: the trimmed first entry of x-forwarded-for is the origin when
\* that entry is not empty; otherwise the origin is x-real-ip, then the
\* transport-layer address (connection, socket, req.ip), then 'unknown'
C27_KeyedByIdOrHashedOrigin ==
  \A r \in Keyed :
    LET first == Trim(FirstEntry(pipe[r].request.forwardedFor.text))
    IN /\ Truthy(pipe[r].request.user) =>
            pipe[r].key = BasePrefix(r) \o <<":", "user", ":">> \o pipe[r].request.user.text
       /\ (~Truthy(pipe[r].request.user) /\ first # << >>) =>
            pipe[r].key = BasePrefix(r) \o <<":", "ip", ":">> \o hashIp(first)
       /\ (~Truthy(pipe[r].request.user) /\ first = << >>) =>
            pipe[r].key = BasePrefix(r) \o <<":", "ip", ":">> \o hashIp(Transport(r))
       /\ Pieces(pipe[r].key) \cap Addresses(r) = {}

\* an anonymous request behind a proxy, with x-real-ip and a transport address,
\* has been keyed by the first forwarded address
C27_Witness ==
  \E r \in Keyed :
    /\ ~Truthy(pipe[r].request.user)
    /\ pipe[r].request.forwardedFor = Given(<<" ", "203.0.113.7", " ", ",", " ", "10.0.0.1">>)
    /\ Truthy(pipe[r].request.realIp) /\ Truthy(pipe[r].request.connection)
    /\ pipe[r].key = <<"custom", ":", "ip", ":", "fec52565aa0cf18f">>

\* ------------------------------------------------------------------ C29
\* logger.warn('High capacity: ...') and lastCapacityWarning = now are one block
HighCapacityWarning == lastCapacityWarning' # lastCapacityWarning
Admission == activeRequests' = activeRequests + 1
WarningDue == lastCapacityWarning = NoWarning \/ now - lastCapacityWarning > 60000
\* intercept admits if and only if activeRequests < maxConcurrent
DecidedByOccupancyAlone ==
  \A r \in DOMAIN req :
    (req[r].st = "new" /\ req'[r].st # "new") =>
      /\ req'[r].st = "rejected" <=> activeRequests >= maxConcurrent
      /\ req'[r].st = "active" <=> activeRequests < maxConcurrent

RecoveryLog == wasAtCapacity /\ ~wasAtCapacity'
Release == activeRequests' = activeRequests - 1

\* C30: the recovery log is emitted only on a release that leaves
\* activeRequests below 50% of maxConcurrent while wasAtCapacity is set, and
\* on every such release; it clears the flag, and the flag is set again only
\* by an admission that brings activeRequests to maxConcurrent, so that the
\* counter reached maxConcurrent between any two recovery logs
C30_OneRecoveryLogPerEpisode ==
  [][/\ RecoveryLog => Release /\ 2 * activeRequests' < maxConcurrent
     /\ (Release /\ wasAtCapacity /\ 2 * activeRequests' < maxConcurrent) => ~wasAtCapacity'
     /\ (~wasAtCapacity /\ wasAtCapacity') => Admission /\ activeRequests' >= maxConcurrent
     /\ (~wasAtCapacity /\ Release) => ~wasAtCapacity']_vars

\* with one slot, two requests were admitted and released one after the other:
\* each filled the counter and each release logged the recovery
C30_Witness ==
  /\ maxConcurrent = 1 /\ activeRequests = 0 /\ ~wasAtCapacity
  /\ Cardinality({r \in DOMAIN req : req[r].st = "done" /\ req[r].incs = 1
                                       /\ req[r].decs = 1}) >= 2

\* ------------------------------------------------------------------ C31
\* the keys found by the call of p that are no longer in the store
Removed(p) == Cardinality({i \in DOMAIN cache[p].keys : cache[p].keys[i] \notin DOMAIN kv})

\* C31: invalidatePattern removes at most 1000 keys per round trip, and the
\* count it returns is the number of keys the call removed from the store,
\* also when a later batch fails after earlier batches were deleted
C31_ReturnsKeysRemoved ==
  [][/\ Cardinality(DOMAIN kv \ DOMAIN kv') <= 1000
     /\ \A p \in DOMAIN cache :
          (cache'[p].op = "invalidatePattern" /\ cache[p].pc # "returned"
             /\ cache'[p].pc = "returned" /\ cache'[p].healthyAtCall) =>
            cache'[p].retCount = Removed(p)']_vars

\* ------------------------------------------------------------------ C32
\* C32: a get whose stored payload cannot be deserialized returns empty and,
\* like a genuine miss, leaves the health state as it was: isHealthy keeps its
\* value and no recovery timer is armed, so that the next operation on another
\* key is not skipped
C32_CorruptPayloadIsAMiss ==
  [][\A p \in DOMAIN cache :
       (cache[p].pc = "get" /\ cache'[p].pc = "returned"
          /\ cache'[p].error = "SyntaxError") =>
         /\ cache'[p].retValue = Null
         /\ ~cache'[p].threw
         /\ isHealthy' = isHealthy
         /\ timers' = timers]_vars

\* ------------------------------------------------------------------ C33
\* C33: whatever connection events and failed operations came before, if the
\* connection is ready from some point on (and, the operations being finitely
\* many, no operation fails from some point on), the layer is healthy from
\* some point on: it does not stay unhealthy while the connection is ready
C33_ReadyLeadsToHealthy == <>[](status = "ready") => <>[](isHealthy /\ getHealthStatus)

\* a read failed, the layer was unhealthy with the connection ready, and the
\* recovery timer has made it healthy again
C33_Witness ==
  /\ status = "ready" /\ isHealthy /\ timers = {}
  /\ reconnectAttempts = 0 /\ retry.attempts = 0 /\ up
  /\ \E p \in DOMAIN cache :
       /\ cache[p].failed /\ cache[p].error = "SyntaxError"
       /\ now >= cache[p].startTime + 30000

\* ------------------------------------------------------------------ C34
\* C34: isHealthy is decided by the last connection event alone: the connect
\* event leaves it true, the close event leaves it false, and a step of a
\* cache operation or of a timer does not change it
C34_HealthFollowsLastEvent ==
  [][/\ (status # "connect" /\ status' = "connect") => isHealthy'
     /\ (status # "close" /\ status' = "close") => ~isHealthy'
     /\ (cache' # cache \/ timers' # timers) => isHealthy' = isHealthy]_vars

\* ------------------------------------------------------------------ C35
\* the place in the chain Idle, Normal, HighLoad, Saturated of a occupied slots
LoadState(a) ==
  IF a = 0 THEN 0
  ELSE IF 10 * a < 8 * maxConcurrent THEN 1
  ELSE IF a < maxConcurrent THEN 2
  ELSE 3
Admitted == \E r \in DOMAIN req : req[r].st = "new" /\ req'[r].st = "active"
Released == \E r \in DOMAIN req : req[r].st = "active" /\ req'[r].st = "done"
Adjacent(from, to) == from - to \in {-1, 0, 1}
\* some occupancy of 0..maxConcurrent is in state k
Inhabited(k) == \E a \in 0..maxConcurrent : LoadState(a) = k

\* C35 as stated: the state changes only on an admission or a release, and
\* each step keeps it or moves it to the next state of the chain, for every
\* maxConcurrent >= 1
C35_AdjacentForEveryMax ==
  [][/\ LoadState(activeRequests') # LoadState(activeRequests) => Admitted \/ Released
     /\ Adjacent(LoadState(activeRequests), LoadState(activeRequests'))]_vars

\* C35, amended: ... for every maxConcurrent >= 5; with maxConcurrent below 5
\* no occupancy is HighLoad (and with 1 none is Normal), and a step then moves
\* between the states on either side of those that no occupancy has
C35_AdjacentFromFive ==
  [][/\ LoadState(activeRequests') # LoadState(activeRequests) => Admitted \/ Released
     /\ maxConcurrent >= 5 =>
          Adjacent(LoadState(activeRequests), LoadState(activeRequests'))
     /\ ~Adjacent(LoadState(activeRequests), LoadState(activeRequests')) =>
          \A k \in 0..3 :
            (\/ LoadState(activeRequests) < k /\ k < LoadState(activeRequests')
             \/ LoadState(activeRequests') < k /\ k < LoadState(activeRequests))
              => ~Inhabited(k)
     /\ activeRequests' <= maxConcurrent]_vars

\* with five slots the counter has been Saturated and a release has brought
\* it back to HighLoad
C35_Witness ==
  /\ maxConcurrent = 5 /\ activeRequests = 4 /\ wasAtCapacity
  /\ LoadState(activeRequests) = 2

\* ------------------------------------------------------------------ C36
\* C36: when a checkRateLimit call whose commands reached the store returns,
\* every member of the window of its key has a score at or after
\* now - windowSeconds * 1000, with now the timestamp of the call
C36_NoStaleMemberAfterCall ==
  [][\A p \in Callers :
       (rl[p].op = "check" /\ rl[p].pc = "exec" /\ rl'[p].pc = "idle" /\ ~rl[p].failed) =>
         \A m \in zset'[rl[p].key] : m[1] >= rl[p].now - windowSeconds * 1000]_vars

\* ------------------------------------------------------------------ C37
\* C37: every checkRateLimit call that reaches the store inserts exactly one
\* member, admitted or rejected: when the k-th call for a key within one
\* window returns, the window holds k members, also when k > limit, and a call
\* is rejected as soon as limit calls, admitted or rejected, are in its window
C37_RejectedCallsAreCounted ==
  [][\A p \in Callers :
       /\ (rl[p].op = "check" /\ rl[p].pc = "zadd" /\ rl'[p].pc = "expire") =>
            Cardinality(zset'[rl[p].key]) = Cardinality(zset[rl[p].key]) + 1
       /\ (rl[p].op = "check" /\ rl[p].pc = "exec" /\ rl'[p].pc = "idle") =>
            /\ Cardinality({m \in zset'[rl[p].key] : m[1] > rl[p].now - windowSeconds * 1000})
                 = Cardinality({c \in calls' : /\ c.key = rl[p].key
                                               /\ c.ts > rl[p].now - windowSeconds * 1000})
            /\ \A c \in calls' \ calls : c.allowed = (Cardinality(Before(c)') < limit)]_vars

\* limit 1 and three calls for a key, each within a window of the one before:
\* the third is rejected although the only admitted call has left its window
\* (pruned, so two members remain), because the rejected second call counts
C37_Witness ==
  /\ limit = 1
  /\ \E k \in Keys :
       /\ Cardinality(zset[k]) = 2
       /\ \E c \in calls :
            /\ c.key = k /\ ~c.allowed
            /\ Before(c) # {} /\ \A d \in Before(c) : ~d.allowed
            /\ Cardinality({d \in calls : d.key = k}) = 3

====
